---- MODULE Spec2Model ----
(***************************************************************************)
(* ClipNest main process and renderer: the progressive folder scan with    *)
(* its thumbnail cache and duration prober, the renderer's batching of     *)
(* streamed records, and the file operations (rename, batch rename,        *)
(* convert) with their metadata migration.                                 *)
(***************************************************************************)
EXTENDS Integers, Sequences, FiniteSets, TLC

(***************************************************************************)
(* Bounds of the model.                                                    *)
(***************************************************************************)
MaxScans == 2

\* Invocations of scan-folder.
MaxLegacyScans == 2

(***************************************************************************)
(* Values.                                                                 *)
(***************************************************************************)
\* JavaScript null.
Null == [null |-> TRUE]

\* String.prototype.toLowerCase on the strings that occur.
ToLowerCase(str) ==
    CASE str = ".MKV" -> ".mkv"
      [] str = ".MP4" -> ".mp4"
      [] str = "/LIB" -> "/lib"
      [] str = "A" -> "a"
      [] str = "X" -> "x"
      [] OTHER -> str

VIDEO_EXTENSIONS ==
    {".mp4", ".mkv", ".mov", ".webm", ".avi", ".wmv", ".flv", ".m4v"}

\* The folder handed to scan-folder-progressive and what readdir lists in it.
FolderPath == "/lib"

Listing ==
    << [stem |-> "a", ext |-> ".mp4",  isDir |-> FALSE],
       [stem |-> "b", ext |-> ".MKV",  isDir |-> FALSE],
       [stem |-> "c", ext |-> ".txt",  isDir |-> FALSE],
       [stem |-> "d", ext |-> ".mov",  isDir |-> TRUE],
       [stem |-> "e", ext |-> ".webm", isDir |-> FALSE] >>

Entries == {Listing[i] : i \in 1..Len(Listing)}

\* path.join(folderPath, file)
Join(dir, file) == [dir |-> dir, stem |-> file.stem, ext |-> file.ext]

\* extname(file).toLowerCase()
Extension(file) == ToLowerCase(file.ext)

\* basename(file, extension): the suffix is removed only when the file name
\* ends with it, compared as written.
Basename(file, extension) ==
    IF file.ext = extension THEN <<file.stem>> ELSE <<file.stem, file.ext>>

\* createHash('sha256').update(filePath).digest('hex').slice(0, 32)
PathHash(filePath) == <<"sha256", filePath>>

\* join(thumbnailsDir, `${pathHash}_v3.jpg`): the artifact whose existence the
\* scan checks.
CachedThumbnailPath(pathHash) == [key |-> pathHash, suffix |-> "_v3"]

\* generateThumbnail's thumbnailFilename, `${videoId}_v2.jpg`: the artifact the
\* extractor writes and generateThumbnail resolves to.
GeneratedThumbnailPath(videoId) == [key |-> videoId, suffix |-> "_v2"]

\* ffmpeg.ffprobe: the reply is an error, or metadata whose
\* format.duration (here in tenths of a second, 0 for a missing or zero
\* duration), which getVideoDuration floors when truthy.
ProbeReplies ==
    {[err |-> TRUE, duration |-> 0]}
        \cup {[err |-> FALSE, duration |-> d] : d \in {0, 5, 79}}

\* Mutant: the guard on a falsy duration is dropped.
GetVideoDuration_NoFalsyGuard(reply) ==
    IF reply.err THEN Null ELSE [seconds |-> reply.duration \div 10]

\* getVideoDuration
GetVideoDuration(reply) ==
    IF reply.err THEN Null
    ELSE IF reply.duration # 0 THEN [seconds |-> reply.duration \div 10]
    ELSE Null

\* { isFavorite: false, tags: [] }; an optional field (lastPlayedTime,
\* productCode) is the empty set when undefined and {value} when set.
DefaultMetadata ==
    [isFavorite |-> FALSE, tags |-> {}, lastPlayedTime |-> {},
     productCode |-> {}]

VARIABLES
    \* main process: persisted store, thumbnails directory, window
    videoMetadata,      \* store 'videoMetadata': path -> VideoMetadata
    watchedFolders,     \* store 'watchedFolders': WatchedFolder[]
    cachedVideos,       \* store 'cachedVideos': VideoFile[]
    thumbs,             \* files present in the thumbnails directory
    destroyed,          \* event.sender.isDestroyed()
    \* one scan-folder-progressive invocation
    scanPc,             \* where the handler stands
    scanCount,          \* invocations started so far
    videoFileNames,     \* the filtered candidates
    scanIdx,            \* position of the per-file loop
    thumbnailPath,      \* thumbnailPath of the file in progress
    events,             \* what this invocation has sent to the renderer
    scanResult,         \* what the invocation resolved to
    \* what happened, kept to state the properties
    readdirFailed,      \* whether readdir threw, this scan
    filterStatFailed,   \* entries whose stat failed while filtering
    statSkipped,        \* candidates whose stat failed in the per-file loop
    extractorRuns,      \* candidates the extractor was started for, this scan
    extractFailed,      \* candidates whose extraction failed, this scan
    proberRuns,         \* candidates the prober was started for, this scan
    probeReply,         \* candidate -> the prober's reply, this scan
    inFlight,           \* the external processes that are running
    extractedOk,        \* paths extracted successfully since the last clear
    overwritten,        \* artifacts the extractor wrote over
    \* renderer (App): the list of videos and the batch of pending records
    videos,             \* useState videos
    pendingVideos,      \* pendingVideosRef.current
    pendingPaths,       \* pendingPathsRef.current
    flushTimeout,       \* whether the timer of flushTimeoutRef is pending
    received,           \* records received so far
    lastReceived,       \* lower-cased path -> the record received last for it
    \* the directory of the videos
    files,              \* path -> the file there (named by its first path)
    caseInsensitive,    \* whether the file system folds letter case
    \* one batch-rename-videos invocation
    batchPc,            \* where the handler stands
    videoPaths,         \* its argument
    newPaths,           \* Map oldPath -> newPath, in insertion order
    tempRenames,        \* Map tempPath -> oldPath, in insertion order
    results,            \* results
    skipped,            \* skipped
    startNumber,        \* startNumber
    availableNums,      \* availableNumbers
    batchIdx,           \* position of the loop in progress
    batchReturn,        \* what the invocation resolved to
    \* what happened, kept to state the properties
    filesBefore,        \* files when the handler was invoked
    metadataBefore,     \* videoMetadata when the handler was invoked
    readdirThrew,       \* whether readdir(targetDir) threw
    renameFailed,       \* the pass in which a rename threw, or "none"
    rollbackFailed,     \* whether a rollback rename threw
    \* rename-video and convert-to-mp4
    activeConversions,  \* Map filePath -> command
    transcoders,        \* the transcoder processes that are running
    conversionsStarted, \* transcoder processes started so far
    lastOp,             \* the request that resolved last, and how
    \* renderer: the folders and their scans
    scanningFolders,    \* scanningFoldersRef: the folders marked as being scanned
    isLoading,          \* the loading indicator
    watchedFolderList,  \* the renderer's state watchedFolders
    initializationStarted, \* initializationStartedRef
    tasks,              \* loadInitialData, importFolderByPath, handleRefreshLibrary
                        \* invocations awaiting scanFolderProgressive
    tasksStarted,       \* imports and refreshes started so far
    \* one scan-folder invocation
    legacyPc,           \* where the handler stands
    legacyCount,        \* invocations started so far
    legacyIdx,          \* position of the loop over the listing
    legacyThumbnailPath,\* thumbnailPath of the file in progress
    videoFiles,         \* the records collected so far
    legacyResult,       \* what the invocation resolved to
    \* the handlers of the metadata, and delete-video
    requests,           \* invocations so far
    lastReply,          \* what the invocation that returned last resolved to
    deleting,           \* the delete-video invocations in progress
    \* what happened, kept to state the properties
    lastSet,            \* path -> field -> the value a handler set last
    thumbError,         \* delete-video invocations whose thumbnail removal threw
    hadEntry            \* delete-video invocations that found metadata to remove

scanVars ==
    << thumbs, destroyed, scanPc, scanCount, videoFileNames,
       scanIdx, thumbnailPath, events, scanResult, readdirFailed,
       filterStatFailed, statSkipped, extractorRuns, extractFailed, proberRuns,
       probeReply, inFlight, extractedOk, overwritten >>

tableVars == << watchedFolders, cachedVideos >>

legacyVars ==
    << legacyPc, legacyCount, legacyIdx, legacyThumbnailPath, videoFiles,
       legacyResult >>

taskVars ==
    << scanningFolders, isLoading, watchedFolderList, initializationStarted,
       tasks, tasksStarted >>

rendererVars ==
    << videos, pendingVideos, pendingPaths, flushTimeout, received,
       lastReceived, taskVars >>

fileVars == << files, caseInsensitive >>

batchVars ==
    << batchPc, videoPaths, newPaths, tempRenames, results, skipped, startNumber,
                   availableNums,
       batchIdx,
       batchReturn, filesBefore, metadataBefore, readdirThrew, renameFailed,
       rollbackFailed >>

opsVars == << activeConversions, transcoders, conversionsStarted, lastOp >>

storeVars ==
    << requests, lastReply, deleting, lastSet, thumbError, hadEntry >>

vars ==
    << videoMetadata, tableVars, scanVars, legacyVars, rendererVars, fileVars,
       batchVars, opsVars, storeVars >>

\* getVideoMetadata(filePath)
GetVideoMetadata(store, filePath) ==
    IF filePath \in DOMAIN store THEN store[filePath] ELSE DefaultMetadata

\* Mutant: directories are not skipped.
IsCandidate_NoDirCheck(file, statFailed) ==
    /\ Extension(file) \in VIDEO_EXTENSIONS
    /\ file \notin statFailed

\* The filter of scan-folder-progressive: supported extension, stat succeeds,
\* not a directory; in the order of the listing.
IsCandidate(file, statFailed) ==
    /\ Extension(file) \in VIDEO_EXTENSIONS
    /\ file \notin statFailed
    /\ ~file.isDir

\* Mutant: the candidates are collected last entry first.
FilterVideoFiles_Unshift(fileNames, statFailed) ==
    LET kept == SelectSeq(fileNames, LAMBDA f : IsCandidate(f, statFailed))
    IN  [k \in 1..Len(kept) |-> kept[Len(kept) + 1 - k]]

FilterVideoFiles(fileNames, statFailed) ==
    SelectSeq(fileNames, LAMBDA f : IsCandidate(f, statFailed))

CurrentFile == videoFileNames[scanIdx]
CurrentPath == Join(FolderPath, CurrentFile)

\* Mutant: the hash is taken of the path and of the scan.
pathHash_PerScan ==
    PathHash([CurrentPath EXCEPT
                 !.dir = IF scanCount = 1 THEN @ ELSE "/scan"])

\* const pathHash = createHash('sha256').update(filePath)...: the hash of the
\* file in progress.
pathHash == PathHash(CurrentPath)


\* The persisted metadata the scans start from: one favourite with a tag.
InitialMetadata ==
    (Join(FolderPath, Listing[1]) :>
        [isFavorite |-> TRUE, tags |-> {"t"}, lastPlayedTime |-> {12},
         productCode |-> {}])

\* Artifacts that may lie in the thumbnails directory before the first scan.
InitialThumbs ==
    { {}, {CachedThumbnailPath(PathHash(Join(FolderPath, Listing[1])))} }

\* The store's defaults for watchedFolders and cachedVideos.
TablesEmpty ==
    /\ watchedFolders = << >>
    /\ cachedVideos = << >>

\* folderPath.split(/[\\/]/).pop() of the folders that occur.
FolderName(folderPath) ==
    CASE folderPath = "/LIB"   -> "LIB"
      [] folderPath = "/films" -> "films"
      [] OTHER                 -> "lib"

\* The folders the user hands to the renderer, in two letter cases.
FolderInputs == {"/lib", "/LIB"}

\* What getWatchedFolders returns at startup: nothing, or one folder.
SavedFolders ==
    { << >>,
      << [path |-> "/LIB", name |-> FolderName("/LIB"), videoCount |-> 1] >> }

\* The tables a library in use holds: one watched folder, one cached record.
InitialWatchedFolders ==
    << [path |-> FolderPath, name |-> "lib", videoCount |-> 1] >>

InitialCachedVideos ==
    << [path |-> Join(FolderPath, Listing[1]), name |-> <<"a">>] >>

\* store.set('cachedVideos', videos)
SaveCachedVideos(list) == list

\* scan-folder has not been invoked.
LegacyIdle ==
    /\ legacyPc = "idle"
    /\ legacyCount = 0
    /\ legacyIdx = 1
    /\ legacyThumbnailPath = Null
    /\ videoFiles = << >>
    /\ legacyResult = Null

\* No scan has been asked for.
ScanIdle ==
    /\ LegacyIdle
    /\ destroyed = FALSE
    /\ scanPc = "idle"
    /\ scanCount = 0
    /\ videoFileNames = << >>
    /\ scanIdx = 1
    /\ thumbnailPath = Null
    /\ events = << >>
    /\ scanResult = Null
    /\ readdirFailed = FALSE
    /\ filterStatFailed = {}
    /\ statSkipped = {}
    /\ extractorRuns = {}
    /\ extractFailed = {}
    /\ proberRuns = {}
    /\ probeReply = << >>
    /\ inFlight = {}
    /\ extractedOk = {}
    /\ overwritten = {}

ScanInit ==
    /\ videoMetadata = InitialMetadata
    /\ watchedFolders = InitialWatchedFolders
    /\ cachedVideos = InitialCachedVideos
    /\ thumbs \in InitialThumbs
    /\ ScanIdle

\* The scan and its cache at rest, whatever the store holds.
MainIdleScan ==
    /\ TablesEmpty
    /\ thumbs = {}
    /\ ScanIdle

\* The main process, for the renderer alone.
MainIdle ==
    /\ videoMetadata = << >>
    /\ watchedFolders \in SavedFolders
    /\ cachedVideos = << >>
    /\ thumbs = {}
    /\ ScanIdle

\* No request has resolved yet.
NoOp ==
    [op |-> "none", oldPath |-> {}, newPath |-> {}, success |-> FALSE,
     error |-> ""]

\* No file operation has been asked for.
NoRequest ==
    /\ lastOp = NoOp
    /\ activeConversions = << >>
    /\ transcoders = {}
    /\ conversionsStarted = 0

\* The directory and the batch rename, for the specifications without them.
FilesIdle ==
    /\ files = << >>
    /\ caseInsensitive = FALSE
    /\ batchPc = "idle"
    /\ videoPaths = << >>
    /\ newPaths = << >>
    /\ tempRenames = << >>
    /\ results = << >>
    /\ skipped = 0
    /\ startNumber = 1
    /\ availableNums = << >>
    /\ batchIdx = 1
    /\ batchReturn = Null
    /\ filesBefore = << >>
    /\ metadataBefore = << >>
    /\ readdirThrew = FALSE
    /\ renameFailed = "none"
    /\ rollbackFailed = FALSE
    /\ activeConversions = << >>
    /\ transcoders = {}
    /\ conversionsStarted = 0
    /\ lastOp = NoOp

\* The paths the handlers of the metadata are invoked with.
StorePaths ==
    { [dir |-> FolderPath, stem |-> <<"x">>, ext |-> ".mp4"],
      [dir |-> FolderPath, stem |-> <<"x">>, ext |-> ".mkv"] }

\* No handler has set any field.
NothingWritten ==
    [isFavorite |-> {}, tags |-> {}, lastPlayedTime |-> {}, productCode |-> {}]

\* What a handler resolves to: each field is empty, or holds the value of
\* its kind that was returned.
NoValue ==
    [isFavorite |-> {}, tags |-> {}, productCode |-> {}, metadata |-> {},
     success |-> {}]

\* No handler of the metadata has been invoked.
StoreIdle ==
    /\ requests = 0
    /\ lastReply = [id |-> 0, op |-> "none", filePath |-> {}, value |-> NoValue]
    /\ deleting = {}
    /\ lastSet = [p \in StorePaths |-> NothingWritten]
    /\ thumbError = {}
    /\ hadEntry = {}

\* What the handlers of the scan leave alone.
ScanFrame ==
    UNCHANGED <<legacyVars, rendererVars, fileVars, batchVars, opsVars,
                storeVars>>

\* What the listeners of the renderer leave alone.
RendererFrame ==
    UNCHANGED <<videoMetadata, tableVars, scanVars, legacyVars, fileVars, batchVars, opsVars,
                storeVars>>

\* The renderer before its first effect ran.
TasksIdle ==
    /\ scanningFolders = {}
    /\ isLoading = FALSE
    /\ watchedFolderList = << >>
    /\ initializationStarted = FALSE
    /\ tasks = {}
    /\ tasksStarted = 0

\* The renderer before anything reached it.
RendererIdle ==
    /\ TasksIdle
    /\ videos = << >>
    /\ pendingVideos = << >>
    /\ pendingPaths = {}
    /\ flushTimeout = FALSE
    /\ received = 0
    /\ lastReceived = << >>

(***************************************************************************)
(* scan-folder-progressive                                                 *)
(***************************************************************************)
\* thumbnailExists(thumbnailPath): access() succeeds
ThumbnailExists(dir, artifact) == artifact \in dir

\* Mutant: the record carries the extension as the file name writes it.
VideoFile_ExtensionAsWritten(file, videoId, thumb, duration, metadata) ==
    [ id            |-> videoId,
      name          |-> Basename(file, Extension(file)),
      path          |-> Join(FolderPath, file),
      extension     |-> file.ext,
      thumbnailPath |-> thumb,
      duration      |-> duration,
      isFavorite    |-> metadata.isFavorite,
      tags          |-> metadata.tags,
      lastPlayedTime |-> metadata.lastPlayedTime,
      productCode   |-> metadata.productCode ]

\* The VideoFile record sent to the renderer.
VideoFile(file, videoId, thumb, duration, metadata) ==
    [ id            |-> videoId,
      name          |-> Basename(file, Extension(file)),
      path          |-> Join(FolderPath, file),
      extension     |-> Extension(file),
      thumbnailPath |-> thumb,
      duration      |-> duration,
      isFavorite    |-> metadata.isFavorite,
      tags          |-> metadata.tags,
      lastPlayedTime |-> metadata.lastPlayedTime,
      productCode   |-> metadata.productCode ]

\* event.sender.send('video-file-ready', videoFile)
SendVideoFileReady(sent, videoFile) ==
    Append(sent, [type |-> "video-file-ready", video |-> videoFile])

\* Mutant: scan-folder-complete goes out ahead of the records.
SendScanFolderComplete_First(sent, folderPath) ==
    <<[type |-> "scan-folder-complete", folder |-> folderPath]>> \o sent

\* event.sender.send('scan-folder-complete', folderPath)
SendScanFolderComplete(sent, folderPath) ==
    Append(sent, [type |-> "scan-folder-complete", folder |-> folderPath])

\* return { totalFiles }
TotalFiles(names) == Len(names)

\* The entries the filter calls stat for.
StatCalledFor == {f \in Entries : Extension(f) \in VIDEO_EXTENSIONS}

\* The handler is invoked; readdir succeeds and the candidates are filtered,
\* stat failing for any of the entries it is called for.
ScanStart ==
    /\ scanPc \in {"idle", "done"}
    /\ scanCount < MaxScans
    /\ \E failed \in SUBSET StatCalledFor :
        /\ filterStatFailed' = failed
        /\ videoFileNames' = FilterVideoFiles(Listing, failed)
    /\ readdirFailed' = FALSE
    /\ scanCount' = scanCount + 1
    /\ scanPc' = "loop"
    /\ scanIdx' = 1
    /\ thumbnailPath' = Null
    /\ events' = << >>
    /\ scanResult' = Null
    /\ statSkipped' = {}
    /\ extractorRuns' = {}
    /\ extractFailed' = {}
    /\ proberRuns' = {}
    /\ probeReply' = << >>
    /\ UNCHANGED <<videoMetadata, tableVars, inFlight, thumbs, destroyed, extractedOk, overwritten>>
    /\ ScanFrame

\* The handler is invoked and readdir throws: the outer catch sends
\* scan-folder-complete without asking isDestroyed (send throws on a destroyed
\* sender, and the invocation rejects) and returns a total of 0.
ScanEnumFail ==
    /\ scanPc \in {"idle", "done"}
    /\ scanCount < MaxScans
    /\ readdirFailed' = TRUE
    /\ scanCount' = scanCount + 1
    /\ scanPc' = "done"
    /\ videoFileNames' = << >>
    /\ filterStatFailed' = {}
    /\ scanIdx' = 1
    /\ thumbnailPath' = Null
    /\ events' = IF destroyed THEN << >>
                 ELSE SendScanFolderComplete(<< >>, FolderPath)
    /\ scanResult' = IF destroyed THEN [rejected |-> TRUE]
                     ELSE [totalFiles |-> 0]
    /\ statSkipped' = {}
    /\ extractorRuns' = {}
    /\ extractFailed' = {}
    /\ proberRuns' = {}
    /\ probeReply' = << >>
    /\ UNCHANGED <<videoMetadata, tableVars, inFlight, thumbs, destroyed, extractedOk, overwritten>>
    /\ ScanFrame

\* Per-file loop: stat throws, the inner catch logs and the loop moves on.
StatFails ==
    /\ scanPc = "loop"
    /\ scanIdx <= Len(videoFileNames)
    /\ statSkipped' = statSkipped \cup {CurrentFile}
    /\ scanIdx' = scanIdx + 1
    /\ UNCHANGED <<videoMetadata, tableVars, inFlight, thumbs, destroyed, scanPc, scanCount,
                   videoFileNames, thumbnailPath, events, scanResult,
                   filterStatFailed, readdirFailed, extractorRuns, extractFailed, proberRuns,
                   probeReply, extractedOk, overwritten>>
    /\ ScanFrame

\* Per-file loop: stat succeeds and the cached artifact exists; the prober is
\* started.
ThumbnailHit ==
    /\ scanPc = "loop"
    /\ scanIdx <= Len(videoFileNames)
    /\ ThumbnailExists(thumbs, CachedThumbnailPath(pathHash))
    /\ thumbnailPath' = CachedThumbnailPath(pathHash)
    /\ scanPc' = "probe"
    /\ proberRuns' = proberRuns \cup {CurrentFile}
    /\ inFlight' = inFlight \cup {[kind |-> "prober", file |-> CurrentFile]}
    /\ UNCHANGED <<videoMetadata, tableVars, thumbs, destroyed, scanCount, videoFileNames,
                   scanIdx, events, scanResult, filterStatFailed, readdirFailed, statSkipped,
                   extractorRuns, extractFailed, probeReply, extractedOk,
                   overwritten>>
    /\ ScanFrame

\* Mutant: generateThumbnail is not awaited; the loop goes on to the next file
\* while the extractor runs.
ThumbnailMiss_NoAwait ==
    /\ scanPc = "loop"
    /\ scanIdx <= Len(videoFileNames)
    /\ ~ThumbnailExists(thumbs, CachedThumbnailPath(pathHash))
    /\ scanIdx' = scanIdx + 1
    /\ extractorRuns' = extractorRuns \cup {CurrentFile}
    /\ inFlight' = inFlight \cup {[kind |-> "extractor", file |-> CurrentFile]}
    /\ UNCHANGED <<videoMetadata, tableVars, thumbs, destroyed, scanPc, scanCount,
                   videoFileNames, thumbnailPath, events, scanResult,
                   filterStatFailed, readdirFailed, statSkipped, extractFailed,
                   proberRuns, probeReply, extractedOk, overwritten>>
    /\ ScanFrame

\* Per-file loop: stat succeeds and the cached artifact does not exist;
\* generateThumbnail starts the extractor.
ThumbnailMiss ==
    /\ scanPc = "loop"
    /\ scanIdx <= Len(videoFileNames)
    /\ ~ThumbnailExists(thumbs, CachedThumbnailPath(pathHash))
    /\ scanPc' = "thumb"
    /\ extractorRuns' = extractorRuns \cup {CurrentFile}
    /\ inFlight' = inFlight \cup {[kind |-> "extractor", file |-> CurrentFile]}
    /\ UNCHANGED <<videoMetadata, tableVars, thumbs, destroyed, scanCount, videoFileNames,
                   scanIdx, thumbnailPath, events, scanResult,
                   filterStatFailed, readdirFailed, statSkipped, extractFailed, proberRuns,
                   probeReply, extractedOk, overwritten>>
    /\ ScanFrame

\* The extractor's 'end': the screenshot is written (over a file of that name,
\* if any) and generateThumbnail resolves to its path; the prober is started.
ExtractorEnd ==
    /\ scanPc = "thumb"
    /\ LET written == GeneratedThumbnailPath(pathHash) IN
        /\ thumbs' = thumbs \cup {written}
        /\ overwritten' = overwritten \cup (thumbs \cap {written})
        /\ thumbnailPath' = written
    /\ extractedOk' = extractedOk \cup {CurrentPath}
    /\ scanPc' = "probe"
    /\ proberRuns' = proberRuns \cup {CurrentFile}
    /\ inFlight' = (inFlight \ {[kind |-> "extractor", file |-> CurrentFile]})
                       \cup {[kind |-> "prober", file |-> CurrentFile]}
    /\ UNCHANGED <<videoMetadata, tableVars, destroyed, scanCount, videoFileNames,
                   scanIdx, events, scanResult, filterStatFailed, readdirFailed, statSkipped,
                   extractorRuns, extractFailed, probeReply>>
    /\ ScanFrame

\* The extractor's 'error': generateThumbnail resolves to null; the prober is
\* started.
ExtractorError ==
    /\ scanPc = "thumb"
    /\ thumbnailPath' = Null
    /\ extractFailed' = extractFailed \cup {CurrentFile}
    /\ scanPc' = "probe"
    /\ proberRuns' = proberRuns \cup {CurrentFile}
    /\ inFlight' = (inFlight \ {[kind |-> "extractor", file |-> CurrentFile]})
                       \cup {[kind |-> "prober", file |-> CurrentFile]}
    /\ UNCHANGED <<videoMetadata, tableVars, thumbs, destroyed, scanCount, videoFileNames,
                   scanIdx, events, scanResult, filterStatFailed, readdirFailed, statSkipped,
                   extractorRuns, probeReply, extractedOk, overwritten>>
    /\ ScanFrame

\* Mutant: a destroyed sender only skips the send; the loop goes on.
ProbeDone_SkipsOnly ==
    /\ scanPc = "probe"
    /\ \E reply \in ProbeReplies :
        /\ probeReply' = probeReply @@ (CurrentFile :> reply)
        /\ events' =
               IF ~destroyed
                 THEN SendVideoFileReady(events,
                          VideoFile(CurrentFile, <<scanCount, scanIdx>>,
                                    thumbnailPath, GetVideoDuration(reply),
                                    GetVideoMetadata(videoMetadata,
                                                     CurrentPath)))
                 ELSE events
    /\ scanIdx' = scanIdx + 1
    /\ scanPc' = "loop"
    /\ inFlight' = inFlight \ {[kind |-> "prober", file |-> CurrentFile]}
    /\ UNCHANGED <<videoMetadata, tableVars, thumbs, destroyed, scanCount, videoFileNames,
                   thumbnailPath, scanResult, filterStatFailed, readdirFailed,
                   statSkipped, extractorRuns, extractFailed, proberRuns,
                   extractedOk, overwritten>>
    /\ ScanFrame

\* ffprobe calls back: the record is assembled and, when the sender is alive,
\* sent; when it is destroyed the handler returns at once.
ProbeDone ==
    /\ scanPc = "probe"
    /\ \E reply \in ProbeReplies :
        /\ probeReply' = probeReply @@ (CurrentFile :> reply)
        /\ IF ~destroyed
           THEN /\ events' = SendVideoFileReady(events,
                                VideoFile(CurrentFile, <<scanCount, scanIdx>>,
                                          thumbnailPath,
                                          GetVideoDuration(reply),
                                          GetVideoMetadata(videoMetadata,
                                                           CurrentPath)))
                /\ scanIdx' = scanIdx + 1
                /\ scanPc' = "loop"
                /\ scanResult' = scanResult
           ELSE /\ events' = events
                /\ scanIdx' = scanIdx
                /\ scanPc' = "done"
                /\ scanResult' = [totalFiles |-> TotalFiles(videoFileNames)]
    /\ inFlight' = inFlight \ {[kind |-> "prober", file |-> CurrentFile]}
    /\ UNCHANGED <<videoMetadata, tableVars, thumbs, destroyed, scanCount, videoFileNames,
                   thumbnailPath, filterStatFailed, readdirFailed, statSkipped, extractorRuns,
                   extractFailed, proberRuns, extractedOk, overwritten>>
    /\ ScanFrame

\* Mutant: the records that were sent are saved to the cache at the end.
ScanComplete_SavesCache ==
    /\ scanPc = "loop"
    /\ scanIdx > Len(videoFileNames)
    /\ events' = IF ~destroyed THEN SendScanFolderComplete(events, FolderPath)
                 ELSE events
    /\ scanResult' = [totalFiles |-> TotalFiles(videoFileNames)]
    /\ scanPc' = "done"
    /\ cachedVideos' =
           SaveCachedVideos([i \in 1..Len(events) |->
                                [path |-> events[i].video.path,
                                 name |-> events[i].video.name]])
    /\ UNCHANGED <<videoMetadata, watchedFolders, inFlight, thumbs, destroyed,
                   scanCount, videoFileNames,
                   scanIdx, thumbnailPath, filterStatFailed, readdirFailed, statSkipped,
                   extractorRuns, extractFailed, proberRuns, probeReply,
                   extractedOk, overwritten>>
    /\ ScanFrame

\* After the loop: scan-folder-complete is sent when the sender is alive, and
\* the handler returns the number of candidates.
ScanComplete ==
    /\ scanPc = "loop"
    /\ scanIdx > Len(videoFileNames)
    /\ events' = IF ~destroyed THEN SendScanFolderComplete(events, FolderPath)
                 ELSE events
    /\ scanResult' = [totalFiles |-> TotalFiles(videoFileNames)]
    /\ scanPc' = "done"
    /\ UNCHANGED <<videoMetadata, tableVars, inFlight, thumbs, destroyed, scanCount, videoFileNames,
                   scanIdx, thumbnailPath, filterStatFailed, readdirFailed, statSkipped,
                   extractorRuns, extractFailed, proberRuns, probeReply,
                   extractedOk, overwritten>>
    /\ ScanFrame

\* The window is closed.
DestroyWindow ==
    /\ ~destroyed
    /\ destroyed' = TRUE
    /\ UNCHANGED <<videoMetadata, tableVars, inFlight, thumbs, scanPc, scanCount, videoFileNames,
                   scanIdx, thumbnailPath, events, scanResult,
                   filterStatFailed, readdirFailed, statSkipped, extractorRuns, extractFailed,
                   proberRuns, probeReply, extractedOk, overwritten>>
    /\ ScanFrame

\* clear-video-cache: the cached records are dropped and every file of the
\* thumbnails directory is unlinked.
ClearVideoCache ==
    /\ thumbs # {} \/ cachedVideos # << >>
    /\ cachedVideos' = SaveCachedVideos(<< >>)
    /\ thumbs' = {}
    /\ extractedOk' = {}
    /\ UNCHANGED <<videoMetadata, watchedFolders, inFlight, destroyed, scanPc, scanCount, videoFileNames,
                   scanIdx, thumbnailPath, events, scanResult,
                   filterStatFailed, readdirFailed, statSkipped, extractorRuns, extractFailed,
                   proberRuns, probeReply, overwritten>>
    /\ ScanFrame

ScanNext ==
    \/ ScanStart
    \/ ScanEnumFail
    \/ StatFails
    \/ ThumbnailHit
    \/ ThumbnailMiss
    \/ ExtractorEnd
    \/ ExtractorError
    \/ ProbeDone
    \/ ScanComplete
    \/ DestroyWindow
    \/ ClearVideoCache

InitScan == ScanInit /\ RendererIdle /\ FilesIdle /\ StoreIdle

SpecScan == InitScan /\ [][ScanNext]_vars

(***************************************************************************)
(* scan-folder                                                             *)
(***************************************************************************)
\* The entry of the listing the loop stands at, and its path.
LegacyFile == Listing[legacyIdx]
LegacyPath == Join(FolderPath, LegacyFile)

\* The VideoFile record scan-folder collects: no productCode.
LegacyVideoFile(file, videoId, thumb, duration, metadata) ==
    [ id            |-> videoId,
      name          |-> Basename(file, Extension(file)),
      path          |-> Join(FolderPath, file),
      extension     |-> Extension(file),
      thumbnailPath |-> thumb,
      duration      |-> duration,
      isFavorite    |-> metadata.isFavorite,
      tags          |-> metadata.tags,
      lastPlayedTime |-> metadata.lastPlayedTime ]

\* a.localeCompare(b) < 0, for the names of the listing: by the letters of
\* the stem, a name that is a prefix of another first.
NameBefore(a, b) ==
    LET collation == <<"a", "b", "c", "d", "e">>
        Rank(letter) == CHOOSE i \in 1..Len(collation) : collation[i] = letter
    IN  \/ Rank(a[1]) < Rank(b[1])
        \/ a[1] = b[1] /\ Len(a) < Len(b)

\* videoFiles.sort((a, b) => a.name.localeCompare(b.name)): stable.
RECURSIVE SortByName(_)
SortByName(list) ==
    IF Len(list) <= 1 THEN list
    ELSE LET rest == SortByName(SubSeq(list, 1, Len(list) - 1))
             last == list[Len(list)]
             keep == {i \in 1..Len(rest) : ~NameBefore(last.name, rest[i].name)}
             at   == Cardinality(keep)
         IN  SubSeq(rest, 1, at) \o <<last>> \o SubSeq(rest, at + 1, Len(rest))

\* What the handler of scan-folder and the operations on the tables leave
\* alone.
LegacyFrame ==
    UNCHANGED <<destroyed, scanPc, scanCount, videoFileNames, scanIdx,
                thumbnailPath, events, scanResult, readdirFailed,
                filterStatFailed, statSkipped, extractorRuns, extractFailed,
                proberRuns, probeReply, inFlight, extractedOk, overwritten,
                rendererVars, fileVars, batchVars, opsVars, storeVars>>

\* The handler is invoked and readdir succeeds.
LegacyScanStart ==
    /\ legacyPc \in {"idle", "done"}
    /\ legacyCount < MaxLegacyScans
    /\ legacyCount' = legacyCount + 1
    /\ legacyPc' = "loop"
    /\ legacyIdx' = 1
    /\ legacyThumbnailPath' = Null
    /\ videoFiles' = << >>
    /\ legacyResult' = Null
    /\ UNCHANGED <<videoMetadata, tableVars, thumbs>>
    /\ LegacyFrame

\* The handler is invoked and readdir throws: the outer catch returns [].
LegacyEnumFail ==
    /\ legacyPc \in {"idle", "done"}
    /\ legacyCount < MaxLegacyScans
    /\ legacyCount' = legacyCount + 1
    /\ legacyPc' = "done"
    /\ legacyIdx' = 1
    /\ legacyThumbnailPath' = Null
    /\ videoFiles' = << >>
    /\ legacyResult' = [videoFiles |-> << >>]
    /\ UNCHANGED <<videoMetadata, tableVars, thumbs>>
    /\ LegacyFrame

\* The loop: the extension is not a supported one, or the entry is a
\* directory; continue.
LegacySkip ==
    /\ legacyPc = "loop"
    /\ legacyIdx <= Len(Listing)
    /\ \/ Extension(LegacyFile) \notin VIDEO_EXTENSIONS
       \/ LegacyFile.isDir
    /\ legacyIdx' = legacyIdx + 1
    /\ UNCHANGED <<videoMetadata, tableVars, thumbs, legacyPc, legacyCount,
                   legacyThumbnailPath, videoFiles, legacyResult>>
    /\ LegacyFrame

\* The loop: stat throws, the inner catch logs and the loop moves on.
LegacyStatFails ==
    /\ legacyPc = "loop"
    /\ legacyIdx <= Len(Listing)
    /\ Extension(LegacyFile) \in VIDEO_EXTENSIONS
    /\ legacyIdx' = legacyIdx + 1
    /\ UNCHANGED <<videoMetadata, tableVars, thumbs, legacyPc, legacyCount,
                   legacyThumbnailPath, videoFiles, legacyResult>>
    /\ LegacyFrame

\* The loop: a video file whose cached artifact exists.
LegacyThumbnailHit ==
    /\ legacyPc = "loop"
    /\ legacyIdx <= Len(Listing)
    /\ Extension(LegacyFile) \in VIDEO_EXTENSIONS
    /\ ~LegacyFile.isDir
    /\ ThumbnailExists(thumbs, CachedThumbnailPath(PathHash(LegacyPath)))
    /\ legacyThumbnailPath' = CachedThumbnailPath(PathHash(LegacyPath))
    /\ legacyPc' = "probe"
    /\ UNCHANGED <<videoMetadata, tableVars, thumbs, legacyCount, legacyIdx,
                   videoFiles, legacyResult>>
    /\ LegacyFrame

\* The loop: a video file whose cached artifact does not exist;
\* generateThumbnail starts the extractor.
LegacyThumbnailMiss ==
    /\ legacyPc = "loop"
    /\ legacyIdx <= Len(Listing)
    /\ Extension(LegacyFile) \in VIDEO_EXTENSIONS
    /\ ~LegacyFile.isDir
    /\ ~ThumbnailExists(thumbs, CachedThumbnailPath(PathHash(LegacyPath)))
    /\ legacyPc' = "thumb"
    /\ UNCHANGED <<videoMetadata, tableVars, thumbs, legacyCount, legacyIdx,
                   legacyThumbnailPath, videoFiles, legacyResult>>
    /\ LegacyFrame

\* The extractor's 'end': the screenshot is written and generateThumbnail
\* resolves to its path.
LegacyExtractorEnd ==
    /\ legacyPc = "thumb"
    /\ thumbs' = thumbs \cup {GeneratedThumbnailPath(PathHash(LegacyPath))}
    /\ legacyThumbnailPath' = GeneratedThumbnailPath(PathHash(LegacyPath))
    /\ legacyPc' = "probe"
    /\ UNCHANGED <<videoMetadata, tableVars, legacyCount, legacyIdx,
                   videoFiles, legacyResult>>
    /\ LegacyFrame

\* The extractor's 'error': generateThumbnail resolves to null.
LegacyExtractorError ==
    /\ legacyPc = "thumb"
    /\ legacyThumbnailPath' = Null
    /\ legacyPc' = "probe"
    /\ UNCHANGED <<videoMetadata, tableVars, thumbs, legacyCount, legacyIdx,
                   videoFiles, legacyResult>>
    /\ LegacyFrame

\* ffprobe calls back: the saved metadata is read and the record is pushed.
LegacyProbeDone ==
    /\ legacyPc = "probe"
    /\ \E reply \in ProbeReplies :
          videoFiles' =
              Append(videoFiles,
                     LegacyVideoFile(LegacyFile, <<legacyCount, legacyIdx>>,
                                     legacyThumbnailPath,
                                     GetVideoDuration(reply),
                                     GetVideoMetadata(videoMetadata,
                                                      LegacyPath)))
    /\ legacyIdx' = legacyIdx + 1
    /\ legacyPc' = "loop"
    /\ UNCHANGED <<videoMetadata, tableVars, thumbs, legacyCount,
                   legacyThumbnailPath, legacyResult>>
    /\ LegacyFrame

\* After the loop: the records are sorted by name and returned.
LegacyReturn ==
    /\ legacyPc = "loop"
    /\ legacyIdx > Len(Listing)
    /\ legacyResult' = [videoFiles |-> SortByName(videoFiles)]
    /\ legacyPc' = "done"
    /\ UNCHANGED <<videoMetadata, tableVars, thumbs, legacyCount, legacyIdx,
                   legacyThumbnailPath, videoFiles>>
    /\ LegacyFrame

\* addWatchedFolder pushing the folder whether or not its path is saved.
AddWatchedFolder_AlwaysPushes(folders, folder) == Append(folders, folder)

\* addWatchedFolder(folder)
AddWatchedFolder(folders, folder) ==
    IF \E i \in 1..Len(folders) : folders[i].path = folder.path
      THEN [i \in 1..Len(folders) |->
               IF i = (CHOOSE k \in 1..Len(folders) :
                          /\ folders[k].path = folder.path
                          /\ \A j \in 1..(k - 1) : folders[j].path # folder.path)
                 THEN folder ELSE folders[i]]
      ELSE Append(folders, folder)

\* removeWatchedFolder(folderPath)
RemoveWatchedFolder(folders, folderPath) ==
    SelectSeq(folders, LAMBDA f : f.path # folderPath)

\* The paths of the folders the user watches: a folder, the same name in
\* another letter case, and another folder.
WatchedPaths == FolderInputs \cup {"/films"}

\* The folders the user watches.
WatchedFolderInputs ==
    {[path |-> p, name |-> FolderName(p), videoCount |-> n] :
        p \in WatchedPaths, n \in {1, 3}}

\* save-watched-folder
SaveWatchedFolder ==
    /\ \E folder \in WatchedFolderInputs :
          /\ watchedFolders' = AddWatchedFolder(watchedFolders, folder)
          /\ watchedFolders' # watchedFolders
    /\ UNCHANGED <<videoMetadata, cachedVideos, thumbs, legacyVars>>
    /\ LegacyFrame

\* remove-watched-folder
RemoveWatchedFolderRequest ==
    /\ \E folderPath \in WatchedPaths :
          /\ watchedFolders' = RemoveWatchedFolder(watchedFolders, folderPath)
          /\ watchedFolders' # watchedFolders
    /\ UNCHANGED <<videoMetadata, cachedVideos, thumbs, legacyVars>>
    /\ LegacyFrame

\* save-video-cache: the renderer hands over the records it holds.
SaveVideoCache ==
    /\ cachedVideos # InitialCachedVideos
    /\ cachedVideos' = SaveCachedVideos(InitialCachedVideos)
    /\ UNCHANGED <<videoMetadata, watchedFolders, thumbs, legacyVars>>
    /\ LegacyFrame

LegacyNext ==
    \/ LegacyScanStart
    \/ LegacyEnumFail
    \/ LegacySkip
    \/ LegacyStatFails
    \/ LegacyThumbnailHit
    \/ LegacyThumbnailMiss
    \/ LegacyExtractorEnd
    \/ LegacyExtractorError
    \/ LegacyProbeDone
    \/ LegacyReturn
    \/ ClearVideoCache
    \/ SaveVideoCache

InitLegacy == InitScan

SpecLegacy == InitLegacy /\ [][LegacyNext]_vars

\* The handlers that write the tables of the store.
TablesNext ==
    \/ SaveWatchedFolder
    \/ RemoveWatchedFolderRequest
    \/ SaveVideoCache
    \/ ClearVideoCache

InitTables == InitScan

SpecTables == InitTables /\ [][TablesNext]_vars

\* save-watched-folder of that folder took the table from before to after:
\* the entry of that path is replaced where it stood, or, no entry having
\* that path, the folder is added at the end.
SavedInPlaceOrAppended(before, after, folder) ==
    \/ /\ Len(after) = Len(before)
       /\ \E k \in 1..Len(before) :
             /\ before[k].path = folder.path
             /\ after[k] = folder
             /\ \A i \in 1..Len(before) : i # k => after[i] = before[i]
    \/ /\ \A i \in 1..Len(before) : before[i].path # folder.path
       /\ Len(after) = Len(before) + 1
       /\ after[Len(after)] = folder
       /\ \A i \in 1..Len(before) : after[i] = before[i]

\* remove-watched-folder of that path took the table from before to after:
\* no entry has that path any more, and the entries of other paths are all
\* there, unchanged and in their order.
RemovedOnly(before, after, folderPath) ==
    /\ \A i \in 1..Len(after) : after[i].path # folderPath
    /\ LET kept == {i \in 1..Len(before) : before[i].path # folderPath}
       IN  /\ Len(after) = Cardinality(kept)
           /\ \A i \in kept :
                 after[Cardinality({j \in kept : j <= i})] = before[i]

\* C37: the table watchedFolders never holds two entries of the same path;
\* every step that changes it either saves a folder, replacing the entry of
\* its path in place or appending it, or removes the entries of a path and
\* leaves the others unchanged and in order.
C37_WatchedFoldersHaveDistinctPaths ==
    /\ [](\A i, j \in 1..Len(watchedFolders) :
            watchedFolders[i].path = watchedFolders[j].path => i = j)
    /\ [][ \/ \E folder \in WatchedFolderInputs :
                 SavedInPlaceOrAppended(watchedFolders, watchedFolders', folder)
           \/ \E folderPath \in WatchedPaths :
                 RemovedOnly(watchedFolders, watchedFolders', folderPath)
         ]_watchedFolders

\* C37 witness: three folders are saved, the first of them with a count that
\* only a save over its entry can have given it.
C37_Witness ==
    /\ Len(watchedFolders) = 3
    /\ watchedFolders[1].path = FolderPath
    /\ watchedFolders[1].videoCount = 3

(***************************************************************************)
(* Properties of the scan.                                                 *)
(***************************************************************************)
\* The candidate files of the folder, read off the directory itself: supported
\* extension, not a directory, stat succeeds.
CandidateFiles ==
    {f \in Entries : /\ ToLowerCase(f.ext) \in VIDEO_EXTENSIONS
                     /\ ~f.isDir
                     /\ f \notin filterStatFailed}

\* The scan listed the folder, has returned, every stat of a candidate
\* succeeded and the window is still there.
ScanRanToEnd ==
    /\ scanPc = "done"
    /\ ~readdirFailed
    /\ ~destroyed
    /\ statSkipped = {}

VideoReadyEvents == {i \in 1..Len(events) : events[i].type = "video-file-ready"}

\* The entry a record was made for.
FileOf(video) == CHOOSE f \in Entries : Join(FolderPath, f) = video.path

\* C1: a scan of a folder with N candidate files whose consumer stays
\* reachable sends exactly N video-file-ready events, one per candidate, then
\* exactly one scan-folder-complete for the folder, and returns totalFiles = N.
C1_ProgressiveEmission ==
    ScanRanToEnd =>
        LET n == Cardinality(CandidateFiles) IN
            /\ Len(events) = n + 1
            /\ VideoReadyEvents = 1..n
            /\ {events[i].video.path : i \in 1..n}
                   = {Join(FolderPath, f) : f \in CandidateFiles}
            /\ events[n + 1] =
                   [type |-> "scan-folder-complete", folder |-> FolderPath]
            /\ scanResult = [totalFiles |-> n]

C1_Witness ==
    /\ ScanRanToEnd
    /\ Cardinality(CandidateFiles) = 3
    /\ Len(events) = 4

\* C2: once the extraction of a file has succeeded, and the cache has not been
\* cleared since, no later scan starts the extractor for that file.
C2_CacheIdempotence ==
    ~(scanPc = "thumb" /\ CurrentPath \in extractedOk)

\* C3: the record of a file whose extraction ran and succeeded carries the
\* artifact path whose existence was checked, that artifact is what was
\* written, and the extractor never writes over an existing artifact.
C3_ArtifactPath ==
    /\ \A i \in VideoReadyEvents :
        LET v == events[i].video IN
            (FileOf(v) \in extractorRuns \ extractFailed) =>
                v.thumbnailPath = CachedThumbnailPath(PathHash(v.path))
    /\ overwritten = {}

\* What C10 says of the records: thumbnailPath is null exactly for the files
\* whose extraction failed, the prober ran for every candidate, one record per
\* candidate and one scan-folder-complete are sent, the total is the number of
\* candidates; NullDuration(f) says when the duration of f is to be null.
SoftFailureRecords(NullDuration(_)) ==
    ScanRanToEnd =>
        LET n == Cardinality(CandidateFiles) IN
            /\ Len(events) = n + 1
            /\ VideoReadyEvents = 1..n
            /\ {FileOf(events[i].video) : i \in 1..n} = CandidateFiles
            /\ events[n + 1].type = "scan-folder-complete"
            /\ scanResult = [totalFiles |-> n]
            /\ proberRuns = CandidateFiles
            /\ \A i \in 1..n :
                LET v == events[i].video IN
                    /\ (v.thumbnailPath = Null) <=> (FileOf(v) \in extractFailed)
                    /\ (v.duration = Null) <=> NullDuration(FileOf(v))

ProbeFailed(f) == probeReply[f].err

ProbeFailedOrNoDuration(f) == probeReply[f].err \/ probeReply[f].duration = 0

C11_CompleteAfterRecords ==
    /\ \A i \in 1..Len(events) :
          events[i].type = "scan-folder-complete"
          => (i = Len(events) /\ scanPc = "done")
    /\ readdirFailed => VideoReadyEvents = {}

\* C11 happens: a scan has sent two records or more and then
\* scan-folder-complete.
C11_Witness ==
    /\ scanPc = "done"
    /\ Len(events) >= 3
    /\ events[Len(events)].type = "scan-folder-complete"
    /\ 1 \in VideoReadyEvents

\* C12: a scan whose readdir threw has sent no video-file-ready and exactly one
\* scan-folder-complete for the folder, has returned a total of 0, and has
\* started neither the extractor nor the prober.
C12_EnumerationFailure ==
    (scanPc = "done" /\ readdirFailed)
    => /\ events = <<[type |-> "scan-folder-complete", folder |-> FolderPath]>>
       /\ scanResult = [totalFiles |-> 0]
       /\ extractorRuns = {}
       /\ proberRuns = {}

\* C13: when the record of a file is ready and the sender is destroyed, the
\* handler returns in that step, with the number of candidates: nothing is
\* sent, and neither the extractor nor the prober is started again.
C13_StopsWhenUnreachable ==
    [][(scanPc = "probe" /\ destroyed /\ scanPc' # "probe")
       => /\ scanPc' = "done"
          /\ events' = events
          /\ extractorRuns' = extractorRuns
          /\ proberRuns' = proberRuns
          /\ inFlight' = {}
          /\ scanResult' = [totalFiles |-> Len(videoFileNames)]]_vars

\* C13 happens: a scan has returned at a file that is not the last
\* candidate, the sender being destroyed, after it had sent a record.
C13_Witness ==
    /\ scanPc = "done"
    /\ destroyed
    /\ ~readdirFailed
    /\ scanIdx < Len(videoFileNames)
    /\ Len(events) >= 1
    /\ videoFileNames[scanIdx] \in DOMAIN probeReply

\* The position of a candidate in the per-file loop.
IndexOf(f) == CHOOSE k \in 1..Len(videoFileNames) : videoFileNames[k] = f

\* The k-th candidate is done with: its stat threw, or its prober has replied,
\* none of its processes is running and its record has been sent.
Settled(k) ==
    \/ videoFileNames[k] \in statSkipped
    \/ /\ videoFileNames[k] \in DOMAIN probeReply
       /\ \A p \in inFlight : p.file # videoFileNames[k]
       /\ \E i \in VideoReadyEvents :
             events[i].video.path = Join(FolderPath, videoFileNames[k])

\* C14: at most one external process of the scan is running, and the
\* extractor or the prober has been started for a candidate only when every
\* candidate before it is done with.
C14_OneFileAtATime ==
    /\ Cardinality(inFlight) <= 1
    /\ \A f \in extractorRuns \cup proberRuns :
          \A k \in 1..(IndexOf(f) - 1) : Settled(k)

\* C14 happens: the extractor runs for the second candidate or a later one
\* after the extractor and the prober have run for the one before it.
C14_Witness ==
    \E p \in inFlight :
        /\ p.kind = "extractor"
        /\ IndexOf(p.file) >= 2
        /\ videoFileNames[IndexOf(p.file) - 1] \in extractorRuns \cap proberRuns

\* C22: no scan event is sent to a destroyed sender: every send of
\* video-file-ready and of scan-folder-complete follows an isDestroyed check,
\* so no invocation ends in the rejection that a send to a destroyed sender
\* throws.
C22_SendsOnlyToReachable ==
    scanResult # [rejected |-> TRUE]

\* C21: the cache key of a file is a function of its path alone: in every
\* scan the artifact of a record is named by the hash of the record's path,
\* whatever the scan and the record id, and so is every artifact in the
\* thumbnails directory.
C21_KeyIsFunctionOfPath ==
    /\ \A i \in VideoReadyEvents :
          LET v == events[i].video IN
          v.thumbnailPath # Null => v.thumbnailPath.key = PathHash(v.path)
    /\ \A t \in thumbs :
          \E f \in Entries : t.key = PathHash(Join(FolderPath, f))

\* C21 happens: a later scan has computed the key of a path again, and has
\* written the artifact an earlier scan wrote.
C21_Witness ==
    /\ scanCount >= 2
    /\ \E i \in VideoReadyEvents :
          LET v == events[i].video IN
          /\ v.thumbnailPath \in overwritten
          /\ v.thumbnailPath.key = PathHash(v.path)

\* A step of a scan, of scan-folder-progressive or of scan-folder.
ScanStep ==
    \/ <<scanPc, scanIdx, scanCount>>' # <<scanPc, scanIdx, scanCount>>
    \/ <<legacyPc, legacyIdx, legacyCount>>' # <<legacyPc, legacyIdx, legacyCount>>

EnumerationIndex(f) == CHOOSE k \in 1..Len(Listing) : Listing[k] = f

\* C29: within one progressive scan the video-file-ready events go out in
\* the order in which readdir enumerated the candidates: of two records that
\* were sent, the one sent first is for the entry enumerated first.
C29_EmissionInEnumerationOrder ==
    \A a, b \in VideoReadyEvents :
        a < b => EnumerationIndex(FileOf(events[a].video))
                     < EnumerationIndex(FileOf(events[b].video))

\* C29 happens: a scan has sent the records of two candidates that are not
\* neighbours in the listing.
C29_Witness ==
    \E a, b \in VideoReadyEvents :
        /\ a < b
        /\ EnumerationIndex(FileOf(events[b].video))
              > EnumerationIndex(FileOf(events[a].video)) + 1

\* The entries whose stat threw, in the filter or in the per-file loop.
StatThrew == filterStatFailed \cup statSkipped

\* C30: every record a scan sends is for an entry of the scanned folder that
\* is a file, whose stats succeeded and whose extension, lower-cased, is a
\* supported one, and the record's extension is that lower-cased extension,
\* dot included. The other entries get no record and do not stop the scan: a
\* scan whose window stayed open sends a record for every entry that meets
\* the conditions, and then scan-folder-complete.
C30_RecordsAreVideoFiles ==
    /\ \A i \in VideoReadyEvents :
          LET v == events[i].video IN
          /\ \E f \in Entries : Join(FolderPath, f) = v.path
          /\ ~FileOf(v).isDir
          /\ FileOf(v) \notin StatThrew
          /\ ToLowerCase(FileOf(v).ext) \in VIDEO_EXTENSIONS
          /\ v.extension = ToLowerCase(FileOf(v).ext)
    /\ (scanPc = "done" /\ ~readdirFailed /\ ~destroyed)
       => /\ \A f \in Entries :
                (/\ ~f.isDir
                 /\ f \notin StatThrew
                 /\ ToLowerCase(f.ext) \in VIDEO_EXTENSIONS)
                => \E i \in VideoReadyEvents :
                      events[i].video.path = Join(FolderPath, f)
          /\ events[Len(events)].type = "scan-folder-complete"

\* C30 happens: a scan that met a directory, an unsupported extension and an
\* entry whose stat threw ran to its end and sent the record of the entry
\* written with an upper-case extension.
C30_Witness ==
    /\ scanPc = "done"
    /\ ~readdirFailed
    /\ ~destroyed
    /\ filterStatFailed # {}
    /\ statSkipped # {}
    /\ \E i \in VideoReadyEvents :
          /\ events[i].video.extension = ".mkv"
          /\ FileOf(events[i].video).ext = ".MKV"

\* C31: the name of every record is the file name without its extension: the
\* name followed by the extension as the file name writes it is the file
\* name, whatever the letter case of the extension.
C31_NameIsFileNameWithoutExtension ==
    \A i \in VideoReadyEvents :
        LET v == events[i].video
            f == FileOf(v)
        IN  v.name \o <<f.ext>> = <<f.stem, f.ext>>

\* A step of the handler after its invocation: the loop runs on, and every
\* call of the extractor and of the prober calls back, with success or with an
\* error.
HandlerStep ==
    \/ StatFails
    \/ ThumbnailHit
    \/ ThumbnailMiss
    \/ ExtractorEnd
    \/ ExtractorError
    \/ ProbeDone
    \/ ScanComplete

SpecScanFair == SpecScan /\ WF_vars(HandlerStep)

\* Every invocation under way ends.
ScanTerminates == (scanPc \notin {"idle", "done"}) ~> (scanPc = "done")

\* C38: every invocation of the progressive scan terminates, whatever stat,
\* the extractor and the prober do for each file, and it ends resolved: with
\* the number of candidates after the whole loop (Complete) or after the
\* sender was found destroyed (Aborted), or with 0 after readdir threw
\* (Aborted).
C38_ScanResolvesInTerminalState ==
    /\ ScanTerminates
    /\ [](scanPc = "done" =>
            \/ /\ readdirFailed
               /\ scanResult = [totalFiles |-> 0]
            \/ /\ ~readdirFailed
               /\ scanIdx > Len(videoFileNames) \/ destroyed
               /\ scanResult = [totalFiles |-> TotalFiles(videoFileNames)])

(***************************************************************************)
(* Renderer: the listeners of App for the streamed records                 *)
(***************************************************************************)
MaxReceived == 2

\* video.path.toLowerCase()
PathToLowerCase(path) ==
    [dir  |-> ToLowerCase(path.dir),
     stem |-> ToLowerCase(path.stem),
     ext  |-> ToLowerCase(path.ext)]

\* The paths of the records that reach the renderer: a file, the same file
\* spelled in another letter case, and another file.
StreamedPaths ==
    { [dir |-> "/lib", stem |-> "a", ext |-> ".mp4"],
      [dir |-> "/LIB", stem |-> "A", ext |-> ".mp4"],
      [dir |-> "/lib", stem |-> "b", ext |-> ".MKV"] }

\* The records loaded from the cache at startup (getCachedVideos).
CachedVideos ==
    { << >>, << [id |-> 0, path |-> [dir |-> "/lib", stem |-> "a", ext |-> ".mp4"]] >> }

RendererInit ==
    /\ TasksIdle
    /\ videos \in CachedVideos
    /\ pendingVideos = << >>
    /\ pendingPaths = {}
    /\ flushTimeout = FALSE
    /\ received = 0
    /\ lastReceived = << >>

\* flushPendingVideos emptying the buffer without adding to the list.
FlushInto_DropsAll(prev, videosToAdd) == prev

\* flushPendingVideos appending every pending record, held or not.
FlushInto_AppendsAll(prev, videosToAdd) == prev \o videosToAdd

\* setVideos(prev => ...) of flushPendingVideos: the pending records whose
\* lower-cased path no held record has are appended.
FlushInto(prev, videosToAdd) ==
    LET existingPaths == {PathToLowerCase(prev[i].path) : i \in 1..Len(prev)}
        newVideos == SelectSeq(videosToAdd,
                         LAMBDA v : PathToLowerCase(v.path) \notin existingPaths)
    IN  IF newVideos = << >> THEN prev ELSE prev \o newVideos

\* onVideoFileReady, a scan being under way: a record whose lower-cased path
\* is pending is dropped; otherwise it is batched and the flush timer is
\* restarted.
OnVideoFileReady ==
    /\ received < MaxReceived
    /\ \E t \in tasks : t.pc = "scanning"
    /\ \E p \in StreamedPaths :
        LET video == [id |-> received + 1, path |-> p]
            lowerPath == PathToLowerCase(p)
        IN  /\ received' = received + 1
            /\ lastReceived' =
                   [l \in DOMAIN lastReceived \cup {lowerPath} |->
                        IF l = lowerPath THEN video ELSE lastReceived[l]]
            /\ IF lowerPath \in pendingPaths
               THEN UNCHANGED <<pendingPaths, pendingVideos, flushTimeout>>
               ELSE /\ pendingPaths' = pendingPaths \cup {lowerPath}
                    /\ pendingVideos' = Append(pendingVideos, video)
                    /\ flushTimeout' = TRUE
    /\ UNCHANGED videos
    /\ UNCHANGED taskVars
    /\ RendererFrame

\* The 300 ms timer fires: flushPendingVideos.
FlushTimerFires ==
    /\ flushTimeout
    /\ flushTimeout' = FALSE
    /\ videos' = FlushInto(videos, pendingVideos)
    /\ pendingVideos' = << >>
    /\ pendingPaths' = {}
    /\ UNCHANGED <<received, lastReceived>>
    /\ UNCHANGED taskVars
    /\ RendererFrame

\* onScanFolderComplete of the scan a task awaits: the folder, lower-cased,
\* leaves scanningFolders, the timer is cleared and the pending records are
\* flushed at once; with no folder left the loading indicator is cleared.
OnScanFolderComplete ==
    /\ \E t \in tasks :
        /\ t.pc = "scanning"
        /\ LET folderPath == t.todo[1].path
               lowerPath == ToLowerCase(folderPath)
           IN  /\ scanningFolders' = scanningFolders \ {lowerPath}
               /\ isLoading' = IF scanningFolders \ {lowerPath} = {}
                                 THEN FALSE ELSE isLoading
        /\ tasks' = (tasks \ {t}) \cup {[t EXCEPT !.pc = "completed"]}
    /\ flushTimeout' = FALSE
    /\ videos' = FlushInto(videos, pendingVideos)
    /\ pendingVideos' = << >>
    /\ pendingPaths' = {}
    /\ UNCHANGED <<received, lastReceived, watchedFolderList,
                   initializationStarted, tasksStarted>>
    /\ RendererFrame

\* onVideoRemoved: the records of that path, compared in lower case, leave the
\* list.
OnVideoRemoved ==
    /\ \E p \in StreamedPaths :
        /\ videos' = SelectSeq(videos,
                LAMBDA v : PathToLowerCase(v.path) # PathToLowerCase(p))
        /\ lastReceived' =
               [l \in DOMAIN lastReceived \ {PathToLowerCase(p)} |->
                    lastReceived[l]]
    /\ UNCHANGED <<pendingVideos, pendingPaths, flushTimeout, received>>
    /\ UNCHANGED taskVars
    /\ RendererFrame

\* Imports and refreshes at most.
MaxTasks == 1

\* What scanFolderProgressive resolves to.
TotalFilesReplies == {2}

\* What the tasks of the renderer leave alone: they write the table
\* watchedFolders through save-watched-folder.
TaskFrame ==
    UNCHANGED <<videoMetadata, cachedVideos, scanVars, legacyVars, fileVars,
                batchVars, opsVars, storeVars, videos, pendingVideos,
                pendingPaths, flushTimeout, received, lastReceived>>

\* setWatchedFolders(prev => prev.map(f => f.path.toLowerCase() === lowerPath
\*     ? { ...f, videoCount } : f))
SetVideoCount(prev, lowerPath, totalFiles) ==
    [i \in 1..Len(prev) |->
        IF ToLowerCase(prev[i].path) = lowerPath
          THEN [prev[i] EXCEPT !.videoCount = totalFiles]
          ELSE prev[i]]

\* loadInitialData: the saved folders are loaded; with some, the loading
\* indicator is set and the first is marked, lower-cased, and scanned;
\* with none, the finally block clears the indicator when no folder is marked.
LoadInitialData ==
    /\ ~initializationStarted
    /\ initializationStarted' = TRUE
    /\ LET savedFolders == watchedFolders IN
       IF Len(savedFolders) > 0
         THEN /\ watchedFolderList' = savedFolders
              /\ isLoading' = TRUE
              /\ scanningFolders' =
                     scanningFolders \cup {ToLowerCase(savedFolders[1].path)}
              /\ tasks' = tasks \cup
                     {[id |-> 0, kind |-> "load", todo |-> savedFolders,
                       pc |-> "scanning"]}
         ELSE /\ isLoading' = IF scanningFolders = {} THEN FALSE ELSE isLoading
              /\ UNCHANGED <<watchedFolderList, scanningFolders, tasks>>
    /\ UNCHANGED <<tasksStarted, watchedFolders>>
    /\ TaskFrame

\* loadInitialData after the finally block of a folder: the next folder is
\* marked, lower-cased, and scanned; after the last, the outer finally block
\* clears the loading indicator when no folder is marked.
LoadScanEnds(t, rest, marked) ==
    IF Len(rest) > 0
      THEN /\ scanningFolders' = marked \cup {ToLowerCase(rest[1].path)}
           /\ tasks' = (tasks \ {t}) \cup
                           {[t EXCEPT !.todo = rest, !.pc = "scanning"]}
           /\ isLoading' = isLoading
      ELSE /\ scanningFolders' = marked
           /\ tasks' = tasks \ {t}
           /\ isLoading' = IF marked = {} THEN FALSE ELSE isLoading

\* loadInitialData: the scan of a saved folder resolves; the count is set and
\* saved, and the finally block takes the folder, lower-cased, off the marks.
LoadScanResolves ==
    /\ \E t \in tasks, totalFiles \in TotalFilesReplies :
        /\ t.kind = "load"
        /\ t.pc = "completed"
        /\ LET folder == t.todo[1]
               lowerPath == ToLowerCase(folder.path)
           IN  /\ watchedFolderList' =
                      SetVideoCount(watchedFolderList, lowerPath, totalFiles)
               /\ watchedFolders' =
                      AddWatchedFolder(watchedFolders,
                          [folder EXCEPT !.videoCount = totalFiles])
               /\ LoadScanEnds(t, Tail(t.todo), scanningFolders \ {lowerPath})
    /\ UNCHANGED <<initializationStarted, tasksStarted>>
    /\ TaskFrame

\* loadInitialData: the scan of a saved folder rejects; the finally block
\* takes the folder, lower-cased, off the marks.
LoadScanRejects ==
    /\ \E t \in tasks :
        /\ t.kind = "load"
        /\ t.pc = "scanning"
        /\ LoadScanEnds(t, Tail(t.todo),
                        scanningFolders \ {ToLowerCase(t.todo[1].path)})
    /\ UNCHANGED <<initializationStarted, tasksStarted, watchedFolderList,
                   watchedFolders>>
    /\ TaskFrame

\* importFolderByPath up to its await: the loading indicator is set, the
\* folder joins the list unless one of its path in lower case is there, and
\* it is marked, lower-cased, and scanned.
ImportFolderByPath ==
    /\ tasksStarted < MaxTasks
    /\ tasksStarted' = tasksStarted + 1
    /\ \E folderPath \in FolderInputs :
        LET newFolder == [path |-> folderPath, name |-> FolderName(folderPath),
                          videoCount |-> 0]
            lowerPath == ToLowerCase(folderPath)
        IN  /\ isLoading' = TRUE
            /\ watchedFolderList' =
                   IF \E i \in 1..Len(watchedFolderList) :
                          ToLowerCase(watchedFolderList[i].path) = lowerPath
                     THEN watchedFolderList
                     ELSE Append(watchedFolderList, newFolder)
            /\ scanningFolders' = scanningFolders \cup {lowerPath}
            /\ tasks' = tasks \cup
                   {[id |-> tasksStarted + 1, kind |-> "import",
                     todo |-> <<newFolder>>, pc |-> "scanning"]}
    /\ UNCHANGED <<initializationStarted, watchedFolders>>
    /\ TaskFrame

\* importFolderByPath: the scan resolves; the count is set, the folder,
\* lower-cased, leaves the marks, the loading indicator is cleared when no
\* folder is marked, and the folder is saved.
ImportScanResolves ==
    /\ \E t \in tasks, totalFiles \in TotalFilesReplies :
        /\ t.kind = "import"
        /\ t.pc = "completed"
        /\ LET updatedFolder == [t.todo[1] EXCEPT !.videoCount = totalFiles]
               lowerPath == ToLowerCase(updatedFolder.path)
           IN  /\ watchedFolderList' =
                      [i \in 1..Len(watchedFolderList) |->
                          IF ToLowerCase(watchedFolderList[i].path) = lowerPath
                            THEN updatedFolder ELSE watchedFolderList[i]]
               /\ scanningFolders' = scanningFolders \ {lowerPath}
               /\ isLoading' = IF scanningFolders \ {lowerPath} = {}
                                 THEN FALSE ELSE isLoading
               /\ watchedFolders' = AddWatchedFolder(watchedFolders, updatedFolder)
        /\ tasks' = tasks \ {t}
    /\ UNCHANGED <<initializationStarted, tasksStarted>>
    /\ TaskFrame

\* importFolderByPath: the scan rejects; the catch block takes the folder, as
\* it is written, off the marks and clears the loading indicator.
ImportScanRejects ==
    /\ \E t \in tasks :
        /\ t.kind = "import"
        /\ t.pc = "scanning"
        /\ scanningFolders' = scanningFolders \ {t.todo[1].path}
        /\ isLoading' = FALSE
        /\ tasks' = tasks \ {t}
    /\ UNCHANGED <<initializationStarted, tasksStarted, watchedFolderList,
                   watchedFolders>>
    /\ TaskFrame

\* handleRefreshLibrary after the finally-less try of a folder: the next
\* folder is marked, as it is written, and scanned; after the last the
\* loading indicator is cleared.
RefreshScanEnds(t, rest, marked) ==
    IF Len(rest) > 0
      THEN /\ scanningFolders' = marked \cup {rest[1].path}
           /\ tasks' = (tasks \ {t}) \cup
                           {[t EXCEPT !.todo = rest, !.pc = "scanning"]}
           /\ isLoading' = isLoading
      ELSE /\ scanningFolders' = marked
           /\ tasks' = tasks \ {t}
           /\ isLoading' = FALSE

\* handleRefreshLibrary up to the await of its first scan, no new subfolder
\* being found: nothing happens while the indicator is set; otherwise it is
\* set, and the first folder of the list is marked, as it is written, and
\* scanned.
HandleRefreshLibrary ==
    /\ ~isLoading
    /\ tasksStarted < MaxTasks
    /\ tasksStarted' = tasksStarted + 1
    /\ LET foldersToScan == watchedFolderList IN
        /\ Len(foldersToScan) > 0
        /\ isLoading' = TRUE
        /\ scanningFolders' = scanningFolders \cup {foldersToScan[1].path}
        /\ tasks' = tasks \cup
               {[id |-> tasksStarted + 1, kind |-> "refresh",
                 todo |-> foldersToScan, pc |-> "scanning"]}
    /\ UNCHANGED <<initializationStarted, watchedFolderList, watchedFolders>>
    /\ TaskFrame

\* handleRefreshLibrary: the scan of a folder resolves; the count is set and
\* saved; the mark of the folder is left to the listener.
RefreshScanResolves ==
    /\ \E t \in tasks, totalFiles \in TotalFilesReplies :
        /\ t.kind = "refresh"
        /\ t.pc = "completed"
        /\ LET folder == t.todo[1]
           IN  /\ watchedFolderList' =
                      SetVideoCount(watchedFolderList,
                                    ToLowerCase(folder.path), totalFiles)
               /\ watchedFolders' =
                      AddWatchedFolder(watchedFolders,
                          [folder EXCEPT !.videoCount = totalFiles])
               /\ RefreshScanEnds(t, Tail(t.todo), scanningFolders)
    /\ UNCHANGED <<initializationStarted, tasksStarted>>
    /\ TaskFrame

\* handleRefreshLibrary: the scan of a folder rejects; the catch block takes
\* the folder, as it is written, off the marks.
RefreshScanRejects ==
    /\ \E t \in tasks :
        /\ t.kind = "refresh"
        /\ t.pc = "scanning"
        /\ RefreshScanEnds(t, Tail(t.todo),
                           scanningFolders \ {t.todo[1].path})
    /\ UNCHANGED <<initializationStarted, tasksStarted, watchedFolderList,
                   watchedFolders>>
    /\ TaskFrame

RendererNext ==
    \/ OnVideoFileReady
    \/ FlushTimerFires
    \/ OnScanFolderComplete
    \/ OnVideoRemoved
    \/ LoadInitialData
    \/ LoadScanResolves
    \/ LoadScanRejects
    \/ ImportFolderByPath
    \/ ImportScanResolves
    \/ ImportScanRejects
    \/ HandleRefreshLibrary
    \/ RefreshScanResolves
    \/ RefreshScanRejects

InitRenderer == MainIdle /\ RendererInit /\ FilesIdle /\ StoreIdle

SpecRenderer == InitRenderer /\ [][RendererNext]_vars

\* The records the renderer holds for a lower-cased path.
HeldFor(lowerPath) ==
    {i \in 1..Len(videos) : PathToLowerCase(videos[i].path) = lowerPath}

\* C4: once nothing is pending, the renderer holds exactly one record for
\* every path it received a record for (paths compared in lower case), and it
\* is the record received last.
C4_LaterRecordWins ==
    pendingVideos = << >> =>
        \A l \in DOMAIN lastReceived :
            /\ Cardinality(HeldFor(l)) = 1
            /\ \A i \in HeldFor(l) : videos[i] = lastReceived[l]

\* C34: the folders marked as being scanned are none whenever no progressive
\* scan is under way, whatever the startup load, the imports, the refreshes
\* and the failures of scans that went before and whatever the letter case
\* of the folder paths; and so the loading indicator is cleared once all
\* scans have completed.
C34_NoMarkWithoutScan ==
    tasks = {} => /\ scanningFolders = {}
                  /\ ~isLoading

\* C35: the list of videos never holds two records whose paths are equal when
\* compared in lower case.
C35_NoCaseInsensitiveDuplicates ==
    \A i, j \in 1..Len(videos) :
        PathToLowerCase(videos[i].path) = PathToLowerCase(videos[j].path)
            => i = j

\* C35 witness: two records are held, and a record received later for a held
\* path spelled in another letter case was flushed without entering the list.
C35_Witness ==
    /\ Len(videos) >= 2
    /\ pendingVideos = << >>
    /\ \E i \in 1..Len(videos) :
          LET l == PathToLowerCase(videos[i].path)
          IN  /\ l \in DOMAIN lastReceived
              /\ lastReceived[l].path # videos[i].path
              /\ lastReceived[l].id > videos[i].id

\* The debounce timer, once armed, fires unless scan-complete clears it.
SpecRendererFair == SpecRenderer /\ WF_vars(FlushTimerFires)

\* The list holds a record of that path, compared in lower case.
HeldIn(list, path) ==
    \E j \in 1..Len(list) :
        PathToLowerCase(list[j].path) = PathToLowerCase(path)

\* C36: every record received is eventually reflected in the list. A record
\* received has its path pending; when the timer fires or scan-complete
\* arrives the buffer is emptied and the list holds a record for the path of
\* every record that was pending; and a pending path always leads to a state
\* with an empty buffer and a record for that path in the list.
C36_ReceivedIsReflected ==
    /\ [][ /\ received' # received
               => \E l \in pendingPaths' :
                     /\ l \in DOMAIN lastReceived'
                     /\ lastReceived'[l].id = received'
           /\ (pendingVideos # << >> /\ flushTimeout /\ ~flushTimeout')
               => /\ pendingVideos' = << >>
                  /\ \A i \in 1..Len(pendingVideos) :
                        HeldIn(videos', pendingVideos[i].path) ]_vars
    /\ [](pendingVideos # << >> => flushTimeout)
    /\ \A p \in StreamedPaths :
          (PathToLowerCase(p) \in pendingPaths)
              ~> (pendingVideos = << >> /\ HeldIn(videos, p))

\* C36 witness: a record received during a scan has left the buffer and is
\* held in the list.
C36_Witness ==
    /\ received >= 1
    /\ pendingVideos = << >>
    /\ ~flushTimeout
    /\ \E l \in DOMAIN lastReceived :
          \E j \in 1..Len(videos) : videos[j].id = lastReceived[l].id

(***************************************************************************)
(* The directory of the videos.  A file name is a stem, written as the     *)
(* sequence of its characters, and an extension; a path is a directory     *)
(* and a file name.                                                        *)
(***************************************************************************)
MaxBatch == 3

Digits == <<"0", "1", "2", "3", "4", "5", "6", "7", "8", "9">>

DigitChars == {Digits[i] : i \in 1..Len(Digits)}

\* The names a directory may hold before a file operation.
NameUniverse ==
    { [dir |-> FolderPath, stem |-> <<"0", "0", "1">>, ext |-> ".mp4"],
      [dir |-> FolderPath, stem |-> <<"0", "0", "2">>, ext |-> ".mp4"],
      [dir |-> FolderPath, stem |-> <<"0", "0", "1">>, ext |-> ".MP4"],
      [dir |-> FolderPath, stem |-> <<"x">>,           ext |-> ".mp4"],
      [dir |-> FolderPath, stem |-> <<"x">>,           ext |-> ".mkv"] }

\* p.toLowerCase() of a path
LowerCasePath(p) ==
    [dir  |-> ToLowerCase(p.dir),
     stem |-> [i \in 1..Len(p.stem) |-> ToLowerCase(p.stem[i])],
     ext  |-> ToLowerCase(p.ext)]

\* parseInt(match[1], 10) of a string of digits
RECURSIVE ParseInt(_)
ParseInt(str) ==
    IF str = << >> THEN 0
    ELSE 10 * ParseInt(SubSeq(str, 1, Len(str) - 1))
         + (CHOOSE d \in 0..9 : Digits[d + 1] = str[Len(str)])

\* n.toString()
RECURSIVE NumberToString(_)
NumberToString(n) ==
    IF n < 10 THEN <<Digits[n + 1]>>
    ELSE NumberToString(n \div 10) \o <<Digits[(n % 10) + 1]>>

\* str.padStart(targetLength, padString) with a one-character padString
RECURSIVE PadStart(_, _, _)
PadStart(str, targetLength, padString) ==
    IF Len(str) >= targetLength THEN str
    ELSE PadStart(<<padString>> \o str, targetLength, padString)

\* file.match(/^(\d{3,})\.(mp4|mov|avi|mkv|wmv|flv|webm|m4v)$/i)
NumberPattern(file) ==
    /\ Len(file.stem) >= 3
    /\ \A i \in 1..Len(file.stem) : file.stem[i] \in DigitChars
    /\ ToLowerCase(file.ext) \in
           {".mp4", ".mov", ".avi", ".mkv", ".wmv", ".flv", ".webm", ".m4v"}

\* The directory entries a path names: the entry spelled so, or on a file
\* system that folds case every entry spelled so up to letter case.
Occupants(fs, p) ==
    IF caseInsensitive
      THEN {f \in DOMAIN fs : LowerCasePath(f) = LowerCasePath(p)}
      ELSE {f \in DOMAIN fs : f = p}

\* existsSync(p)
ExistsSync(fs, p) == Occupants(fs, p) # {}

\* rename(oldPath, newPath) when it succeeds: the file leaves its entry and
\* takes the entry newPath, replacing the file that was there.
Rename(fs, oldPath, newPath) ==
    LET moved == fs[CHOOSE f \in Occupants(fs, oldPath) : TRUE]
        kept  == DOMAIN fs \ (Occupants(fs, oldPath) \cup Occupants(fs, newPath))
    IN  [f \in kept \cup {newPath} |-> IF f = newPath THEN moved ELSE fs[f]]

\* The directories that can exist: on a file system that folds case no two
\* entries differ by case alone.
Directories(folding) ==
    {[p \in S |-> p] :
        S \in {T \in SUBSET NameUniverse :
                 folding => \A f, g \in T :
                     LowerCasePath(f) = LowerCasePath(g) => f = g}}

(***************************************************************************)
(* batch-rename-videos                                                     *)
(***************************************************************************)
MAX_ERRORS == 5
padLength == 3

\* videoPaths.some(p => p.toLowerCase() === filePath.toLowerCase())
IsInBatch(paths, filePath) ==
    \E i \in 1..Len(paths) : LowerCasePath(paths[i]) = LowerCasePath(filePath)

\* takenNumbers: the numbers of the numbered files of the directory that are
\* not in the batch; empty when readdir threw.
TakenNumbers(fs, paths, readdirOk) ==
    IF readdirOk
      THEN {ParseInt(f.stem) :
               f \in {g \in DOMAIN fs : NumberPattern(g) /\ ~IsInBatch(paths, g)}}
      ELSE {}

\* availableNumbers: the first count numbers from nextNum on that are not taken
RECURSIVE AvailableNumbers(_, _, _)
AvailableNumbers(takenNumbers, count, nextNum) ==
    IF count = 0 THEN << >>
    ELSE IF nextNum \in takenNumbers
      THEN AvailableNumbers(takenNumbers, count, nextNum + 1)
      ELSE <<nextNum>> \o AvailableNumbers(takenNumbers, count - 1, nextNum + 1)

\* join(dir, `${num}${extension}`) for the i-th path of the batch
NewPath(oldPath, number) ==
    [dir  |-> oldPath.dir,
     stem |-> PadStart(NumberToString(number), padLength, "0"),
     ext  |-> oldPath.ext]

\* join(dir, `${baseName}${tempSuffix}${extension}`)
TempPath(oldPath) ==
    [dir  |-> oldPath.dir,
     stem |-> oldPath.stem \o <<"_temp_now">>,
     ext  |-> oldPath.ext]

\* The validation loop from its i-th round on; acc holds results, skipped,
\* errors, usedNewPaths and newPaths.
RECURSIVE Validate(_, _, _, _, _)
Validate(fs, paths, availableNumbers, i, acc) ==
    IF i > Len(paths) THEN acc
    ELSE
      LET oldPath == paths[i]
          newPath == NewPath(oldPath, availableNumbers[i])
          round ==
            IF LowerCasePath(newPath) = LowerCasePath(oldPath)
              THEN [acc EXCEPT
                      !.results = Append(@, [oldPath |-> oldPath,
                                             newPath |-> newPath]),
                      !.skipped = @ + 1]
            ELSE IF oldPath.stem = newPath.stem
              THEN [acc EXCEPT
                      !.results = Append(@, [oldPath |-> oldPath,
                                             newPath |-> oldPath]),
                      !.skipped = @ + 1]
            ELSE IF ExistsSync(fs, newPath) /\ ~IsInBatch(paths, newPath)
              THEN [acc EXCEPT
                      !.errors = IF Len(@) < MAX_ERRORS
                                   THEN Append(@, [kind |-> "exists",
                                                   name |-> {newPath}])
                                   ELSE @]
            ELSE IF LowerCasePath(newPath) \in acc.usedNewPaths
              THEN [acc EXCEPT
                      !.errors = IF Len(@) < MAX_ERRORS
                                   THEN Append(@, [kind |-> "duplicate",
                                                   name |-> {newPath}])
                                   ELSE @]
            ELSE [acc EXCEPT
                    !.usedNewPaths = @ \cup {LowerCasePath(newPath)},
                    !.newPaths = Append(@, [oldPath |-> oldPath,
                                            newPath |-> newPath])]
      IN  Validate(fs, paths, availableNumbers, i + 1, round)

Validation(fs, paths, availableNumbers) ==
    Validate(fs, paths, availableNumbers, 1,
             [results |-> << >>, skipped |-> 0, errors |-> << >>,
              usedNewPaths |-> {}, newPaths |-> << >>])

\* Mutant: a failed validation returns the entries it had collected.
ValidationFailure_KeepResults(acc, startNum) ==
    [success |-> FALSE, results |-> acc.results,
     errors |-> IF Len(acc.errors) >= MAX_ERRORS
                  THEN Append(acc.errors, [kind |-> "more", name |-> {}])
                  ELSE acc.errors,
     skipped |-> acc.skipped, startNumber |-> startNum]

\* return { success: false, results: [], errors, skipped, startNumber }
ValidationFailure(acc, startNum) ==
    [success |-> FALSE, results |-> << >>,
     errors |-> IF Len(acc.errors) >= MAX_ERRORS
                  THEN Append(acc.errors, [kind |-> "more", name |-> {}])
                  ELSE acc.errors,
     skipped |-> acc.skipped, startNumber |-> startNum]

\* Mutant: the result lists the renamed files only.
BatchSuccess_RenamedOnly(entries, skippedCount, startNum) ==
    [success |-> TRUE,
     results |-> SelectSeq(entries, LAMBDA e : e.oldPath # e.newPath),
     errors |-> << >>, skipped |-> skippedCount, startNumber |-> startNum]

\* return { success: true, results, errors: [], skipped, startNumber }
BatchSuccess(entries, skippedCount, startNum) ==
    [success |-> TRUE, results |-> entries, errors |-> << >>,
     skipped |-> skippedCount, startNumber |-> startNum]

\* metadata.isFavorite || metadata.tags.length > 0 || metadata.lastPlayedTime
MigratesInBatch(metadata) ==
    \/ metadata.isFavorite
    \/ metadata.tags # {}
    \/ \E t \in metadata.lastPlayedTime : t # 0

\* Mutant: the entry of the old path is kept.
MigrateMetadata_KeepsOldKey(store, oldPath, newPath) ==
    [k \in DOMAIN store \cup {newPath} |->
        IF k = newPath THEN GetVideoMetadata(store, oldPath) ELSE store[k]]

\* saveVideoMetadata(newPath, metadata); delete allMetadata[oldPath]
MigrateMetadata(store, oldPath, newPath) ==
    LET metadata == GetVideoMetadata(store, oldPath)
        saved == [k \in DOMAIN store \cup {newPath} |->
                     IF k = newPath THEN metadata ELSE store[k]]
    IN  [k \in DOMAIN saved \ {oldPath} |-> saved[k]]

\* The batches the renderer can ask for: paths of its list, which holds no
\* two paths equal up to letter case.
RECURSIVE Batches(_)
Batches(n) ==
    IF n = 0 THEN {<< >>}
    ELSE Batches(n - 1) \cup
         {Append(b, p) : b \in {c \in Batches(n - 1) : Len(c) = n - 1},
                         p \in NameUniverse} 

BatchInputs ==
    {b \in Batches(MaxBatch) :
        \A i, j \in 1..Len(b) :
            LowerCasePath(b[i]) = LowerCasePath(b[j]) => i = j}

\* The metadata stored before a file operation: nothing, or one entry for
\* x.mp4 or x.mkv with some of the fields set.
StoredMetadata ==
    { [DefaultMetadata EXCEPT !.isFavorite = TRUE, !.tags = {"t"}],
      [DefaultMetadata EXCEPT !.lastPlayedTime = {12}],
      [DefaultMetadata EXCEPT !.productCode = {"ABC-1"}] }

MetadataStores ==
    {<< >>} \cup
    {[p \in {q} |-> m] :
        q \in {[dir |-> FolderPath, stem |-> <<"x">>, ext |-> ".mp4"],
               [dir |-> FolderPath, stem |-> <<"x">>, ext |-> ".mkv"]},
        m \in StoredMetadata}

BatchInit ==
    /\ caseInsensitive \in BOOLEAN
    /\ files \in Directories(caseInsensitive)
    /\ videoMetadata \in MetadataStores
    /\ batchPc = "idle"
    /\ videoPaths = << >>
    /\ newPaths = << >>
    /\ tempRenames = << >>
    /\ results = << >>
    /\ skipped = 0
    /\ startNumber = 1
    /\ availableNums = << >>
    /\ batchIdx = 1
    /\ batchReturn = Null
    /\ filesBefore = << >>
    /\ metadataBefore = << >>
    /\ readdirThrew = FALSE
    /\ renameFailed = "none"
    /\ rollbackFailed = FALSE
    /\ activeConversions = << >>
    /\ transcoders = {}
    /\ conversionsStarted = 0
    /\ lastOp = NoOp

\* What batch-rename-videos leaves alone.
BatchFrame ==
    UNCHANGED <<tableVars, legacyVars, scanVars, rendererVars, caseInsensitive, opsVars, storeVars>>

\* The invocation up to the first rename: the empty batch, the numbers, the
\* validation and its return.
BatchRenameVideos ==
    /\ batchPc = "idle"
    /\ NoRequest
    /\ \E paths \in BatchInputs, readdirOk \in BOOLEAN :
         LET availableNumbers ==
                 AvailableNumbers(TakenNumbers(files, paths, readdirOk),
                                  Len(paths), 1)
             startNum ==
                 IF Len(availableNumbers) > 0 THEN availableNumbers[1] ELSE 1
             acc == Validation(files, paths, availableNumbers)
         IN  /\ videoPaths' = paths
             /\ startNumber' = startNum
             /\ availableNums' = availableNumbers
             /\ filesBefore' = files
             /\ metadataBefore' = videoMetadata
             /\ IF Len(paths) = 0
                  THEN /\ batchPc' = "done"
                       /\ batchReturn' =
                              [success |-> FALSE, results |-> << >>,
                               errors |-> <<[kind |-> "empty", name |-> {}]>>,
                               skipped |-> 0, startNumber |-> 1]
                       /\ UNCHANGED <<newPaths, results, skipped, readdirThrew>>
                ELSE IF Len(acc.errors) > 0
                  THEN /\ batchPc' = "done"
                       /\ batchReturn' = ValidationFailure(acc, startNum)
                       /\ readdirThrew' = ~readdirOk
                       /\ results' = acc.results
                       /\ skipped' = acc.skipped
                       /\ UNCHANGED newPaths
                ELSE IF Len(acc.newPaths) = 0
                  THEN /\ batchPc' = "done"
                       /\ batchReturn' =
                              BatchSuccess(acc.results, acc.skipped, startNum)
                       /\ readdirThrew' = ~readdirOk
                       /\ results' = acc.results
                       /\ skipped' = acc.skipped
                       /\ UNCHANGED newPaths
                ELSE /\ batchPc' = "pass1"
                     /\ UNCHANGED batchReturn
                     /\ readdirThrew' = ~readdirOk
                     /\ results' = acc.results
                     /\ skipped' = acc.skipped
                     /\ newPaths' = acc.newPaths
    /\ UNCHANGED <<files, videoMetadata, tempRenames, batchIdx, renameFailed,
                   rollbackFailed>>
    /\ BatchFrame

\* Step 1: await rename(oldPath, tempPath); tempRenames.set(tempPath, oldPath)
RenameToTemp ==
    /\ batchPc = "pass1"
    /\ LET oldPath == newPaths[batchIdx].oldPath
       IN  /\ ExistsSync(files, oldPath)
           /\ files' = Rename(files, oldPath, TempPath(oldPath))
           /\ tempRenames' = Append(tempRenames,
                                    [tempPath |-> TempPath(oldPath),
                                     originalPath |-> oldPath])
    /\ IF batchIdx = Len(newPaths)
         THEN batchPc' = "pass2" /\ batchIdx' = 1
         ELSE batchPc' = "pass1" /\ batchIdx' = batchIdx + 1
    /\ UNCHANGED <<videoMetadata, videoPaths, newPaths, results, skipped, startNumber,
                   availableNums,
                   batchReturn, filesBefore, metadataBefore, readdirThrew,
                   renameFailed, rollbackFailed>>
    /\ BatchFrame

\* Step 1: rename(oldPath, tempPath) throws, as it does when nothing is at
\* oldPath.
RenameToTempThrows ==
    /\ batchPc = "pass1"
    /\ batchPc' = "rollback"
    /\ batchIdx' = 1
    /\ renameFailed' = "pass1"
    /\ UNCHANGED <<files, videoMetadata, videoPaths, newPaths, tempRenames,
                   results, skipped, startNumber,
                   availableNums, batchReturn, filesBefore, metadataBefore,
                   readdirThrew, rollbackFailed>>
    /\ BatchFrame

\* Step 2: await rename(tempPath, newPath); tempRenames.delete(tempPath); the
\* metadata migration; results.push; after the last one the return.
RenameToFinal ==
    /\ batchPc = "pass2"
    /\ LET oldPath == newPaths[batchIdx].oldPath
           newPath == newPaths[batchIdx].newPath
           pushed == Append(results, [oldPath |-> oldPath, newPath |-> newPath])
       IN  /\ ExistsSync(files, TempPath(oldPath))
           /\ files' = Rename(files, TempPath(oldPath), newPath)
           /\ tempRenames' =
                  SelectSeq(tempRenames,
                            LAMBDA e : e.tempPath # TempPath(oldPath))
           /\ videoMetadata' =
                  IF MigratesInBatch(GetVideoMetadata(videoMetadata, oldPath))
                    THEN MigrateMetadata(videoMetadata, oldPath, newPath)
                    ELSE videoMetadata
           /\ results' = pushed
           /\ IF batchIdx = Len(newPaths)
                THEN /\ batchPc' = "done"
                     /\ batchIdx' = batchIdx
                     /\ batchReturn' =
                            BatchSuccess(pushed, skipped, startNumber)
                ELSE /\ batchPc' = "pass2"
                     /\ batchIdx' = batchIdx + 1
                     /\ UNCHANGED batchReturn
    /\ UNCHANGED <<videoPaths, newPaths, skipped, startNumber,
                   availableNums, filesBefore, metadataBefore,
                   readdirThrew, renameFailed, rollbackFailed>>
    /\ BatchFrame

\* Step 2: rename(tempPath, newPath) throws.
RenameToFinalThrows ==
    /\ batchPc = "pass2"
    /\ batchPc' = "rollback"
    /\ batchIdx' = 1
    /\ renameFailed' = "pass2"
    /\ UNCHANGED <<files, videoMetadata, videoPaths, newPaths, tempRenames,
                   results, skipped, startNumber,
                   availableNums, batchReturn, filesBefore, metadataBefore,
                   readdirThrew, rollbackFailed>>
    /\ BatchFrame

\* The return after the rollback loop.
RollbackReturn ==
    [success |-> FALSE, results |-> << >>,
     errors |-> <<[kind |-> "failed", name |-> {}]>>,
     skipped |-> 0, startNumber |-> 1]

\* catch: one entry of tempRenames; if (existsSync(tempPath)) await
\* rename(tempPath, originalPath)
Rollback ==
    /\ batchPc = "rollback"
    /\ batchIdx <= Len(tempRenames)
    /\ LET entry == tempRenames[batchIdx]
       IN  files' = IF ExistsSync(files, entry.tempPath)
                      THEN Rename(files, entry.tempPath, entry.originalPath)
                      ELSE files
    /\ batchIdx' = batchIdx + 1
    /\ UNCHANGED <<videoMetadata, batchPc, videoPaths, newPaths, tempRenames,
                   results, skipped, startNumber,
                   availableNums, batchReturn, filesBefore, metadataBefore,
                   readdirThrew, renameFailed, rollbackFailed>>
    /\ BatchFrame

\* catch: the rename of one entry throws; the error is logged and the loop
\* goes on.
RollbackThrows ==
    /\ batchPc = "rollback"
    /\ batchIdx <= Len(tempRenames)
    /\ ExistsSync(files, tempRenames[batchIdx].tempPath)
    /\ batchIdx' = batchIdx + 1
    /\ rollbackFailed' = TRUE
    /\ UNCHANGED <<files, videoMetadata, batchPc, videoPaths, newPaths,
                   tempRenames, results, skipped, startNumber,
                   availableNums, batchReturn, filesBefore,
                   metadataBefore, readdirThrew, renameFailed>>
    /\ BatchFrame

\* catch: return { success: false, results: [], errors: [...], skipped: 0,
\* startNumber: 1 }
RollbackDone ==
    /\ batchPc = "rollback"
    /\ batchIdx > Len(tempRenames)
    /\ batchPc' = "done"
    /\ batchReturn' = RollbackReturn
    /\ UNCHANGED <<files, videoMetadata, videoPaths, newPaths, tempRenames,
                   results, skipped, startNumber,
                   availableNums, batchIdx, filesBefore, metadataBefore,
                   readdirThrew, renameFailed, rollbackFailed>>
    /\ BatchFrame

BatchNext ==
    \/ BatchRenameVideos
    \/ RenameToTemp
    \/ RenameToTempThrows
    \/ RenameToFinal
    \/ RenameToFinalThrows
    \/ Rollback
    \/ RollbackThrows
    \/ RollbackDone

InitBatch == MainIdleScan /\ RendererIdle /\ BatchInit /\ StoreIdle

SpecBatch == InitBatch /\ [][BatchNext]_vars

(***************************************************************************)
(* rename-video and convert-to-mp4                                         *)
(***************************************************************************)
\* The new names asked for.
NewNames == {<<"x">>, <<"z">>, <<"0", "0", "1">>}

\* join(dir, `${newName}${extension}`)
RenamedPath(oldPath, newName) ==
    [dir |-> oldPath.dir, stem |-> newName, ext |-> oldPath.ext]

\* metadata.isFavorite || metadata.tags.length > 0
MigratesOnRename(metadata) == metadata.isFavorite \/ metadata.tags # {}

\* metadata.isFavorite || metadata.tags.length > 0 || metadata.lastPlayedTime
MigratesOnConvert(metadata) ==
    \/ metadata.isFavorite
    \/ metadata.tags # {}
    \/ \E t \in metadata.lastPlayedTime : t # 0

supportedFormats ==
    {".mkv", ".avi", ".mov", ".wmv", ".flv", ".webm", ".m4v", ".ts", ".mts"}

\* join(dir, `${basename(filePath, ext)}.mp4`) with ext the lower-cased
\* extension: basename removes the extension only when it is written so.
OutputPath(filePath) ==
    [dir  |-> filePath.dir,
     stem |-> IF filePath.ext = ToLowerCase(filePath.ext)
                THEN filePath.stem
                ELSE filePath.stem \o <<filePath.ext>>,
     ext  |-> ".mp4"]

\* What rename-video and convert-to-mp4 leave alone.
OpsFrame ==
    UNCHANGED <<tableVars, legacyVars, scanVars, rendererVars, caseInsensitive, batchPc, videoPaths,
                newPaths, tempRenames, results, skipped, startNumber,
                   availableNums, batchIdx,
                batchReturn, readdirThrew, renameFailed, rollbackFailed,
                storeVars>>

\* No request is being served.
OpsIdle == batchPc = "idle" /\ NoRequest

\* Mutant: the metadata is migrated before the new path is looked at.
RenameVideoExists_MigratesFirst ==
    /\ OpsIdle
    /\ \E oldPath \in NameUniverse, newName \in NewNames :
         LET newPath == RenamedPath(oldPath, newName)
         IN  /\ ExistsSync(files, newPath) /\ newPath # oldPath
             /\ videoMetadata' =
                    IF MigratesOnRename(GetVideoMetadata(videoMetadata, oldPath))
                      THEN MigrateMetadata(videoMetadata, oldPath, newPath)
                      ELSE videoMetadata
             /\ lastOp' = [op |-> "rename-video", oldPath |-> {oldPath},
                           newPath |-> {}, success |-> FALSE,
                           error |-> "exists"]
    /\ filesBefore' = files
    /\ metadataBefore' = videoMetadata
    /\ UNCHANGED <<files, activeConversions, transcoders, conversionsStarted>>
    /\ OpsFrame

\* rename-video: the new path exists and is not the old path.
RenameVideoExists ==
    /\ OpsIdle
    /\ \E oldPath \in NameUniverse, newName \in NewNames :
         LET newPath == RenamedPath(oldPath, newName)
         IN  /\ ExistsSync(files, newPath) /\ newPath # oldPath
             /\ lastOp' = [op |-> "rename-video", oldPath |-> {oldPath},
                           newPath |-> {}, success |-> FALSE,
                       error |-> "exists"]
    /\ filesBefore' = files
    /\ metadataBefore' = videoMetadata
    /\ UNCHANGED <<files, videoMetadata, activeConversions, transcoders,
                   conversionsStarted>>
    /\ OpsFrame

\* rename-video: the rename and the metadata migration.
RenameVideo ==
    /\ OpsIdle
    /\ \E oldPath \in NameUniverse, newName \in NewNames :
         LET newPath == RenamedPath(oldPath, newName)
         IN  /\ ~(ExistsSync(files, newPath) /\ newPath # oldPath)
             /\ ExistsSync(files, oldPath)
             /\ files' = Rename(files, oldPath, newPath)
             /\ videoMetadata' =
                    IF MigratesOnRename(GetVideoMetadata(videoMetadata, oldPath))
                      THEN MigrateMetadata(videoMetadata, oldPath, newPath)
                      ELSE videoMetadata
             /\ lastOp' = [op |-> "rename-video", oldPath |-> {oldPath},
                           newPath |-> {newPath}, success |-> TRUE,
                       error |-> ""]
    /\ filesBefore' = files
    /\ metadataBefore' = videoMetadata
    /\ UNCHANGED <<activeConversions, transcoders, conversionsStarted>>
    /\ OpsFrame

\* rename-video: rename(oldPath, newPath) throws, as it does when nothing is
\* at oldPath.
RenameVideoThrows ==
    /\ OpsIdle
    /\ \E oldPath \in NameUniverse, newName \in NewNames :
         LET newPath == RenamedPath(oldPath, newName)
         IN  /\ ~(ExistsSync(files, newPath) /\ newPath # oldPath)
             /\ lastOp' = [op |-> "rename-video", oldPath |-> {oldPath},
                           newPath |-> {}, success |-> FALSE,
                       error |-> "failed"]
    /\ filesBefore' = files
    /\ metadataBefore' = videoMetadata
    /\ UNCHANGED <<files, videoMetadata, activeConversions, transcoders,
                   conversionsStarted>>
    /\ OpsFrame

\* The conversions asked for at most.
MaxConversions == 2

\* No rename is being served: convert-to-mp4 and cancel-conversion are served
\* while transcoders run.
ConvertIdle ==
    /\ batchPc = "idle"
    /\ lastOp.op \in {"none", "convert-to-mp4", "cancel-conversion"}

\* map.delete(key)
MapDelete(map, key) == [k \in DOMAIN map \ {key} |-> map[k]]

\* unlinkSync(p) when p exists, trashItem(p)
Unlink(fs, p) == [f \in DOMAIN fs \ Occupants(fs, p) |-> fs[f]]

\* The transcoder writes (over) its output file.
Written(fs, outputPath) ==
    [f \in DOMAIN fs \cup {outputPath} |->
        IF f = outputPath THEN outputPath ELSE fs[f]]

\* convert-to-mp4: the file is an mp4 already.
ConvertSkipped ==
    /\ ConvertIdle
    /\ \E filePath \in NameUniverse :
         /\ ToLowerCase(filePath.ext) = ".mp4"
         /\ lastOp' = [op |-> "convert-to-mp4", oldPath |-> {filePath},
                       newPath |-> {filePath}, success |-> TRUE,
                       error |-> ""]
    /\ filesBefore' = files
    /\ metadataBefore' = videoMetadata
    /\ UNCHANGED <<files, videoMetadata, activeConversions, transcoders,
                   conversionsStarted>>
    /\ OpsFrame

\* convert-to-mp4: the format is not supported or the output exists.
ConvertRefused ==
    /\ ConvertIdle
    /\ \E filePath \in NameUniverse :
         /\ ToLowerCase(filePath.ext) # ".mp4"
         /\ \/ ToLowerCase(filePath.ext) \notin supportedFormats
            \/ ExistsSync(files, OutputPath(filePath))
         /\ lastOp' = [op |-> "convert-to-mp4", oldPath |-> {filePath},
                       newPath |-> {}, success |-> FALSE,
                       error |-> "refused"]
    /\ filesBefore' = files
    /\ metadataBefore' = videoMetadata
    /\ UNCHANGED <<files, videoMetadata, activeConversions, transcoders,
                   conversionsStarted>>
    /\ OpsFrame

\* convert-to-mp4: the checks pass; activeConversions.set(filePath, command);
\* command.run()
ConvertStart ==
    /\ ConvertIdle
    /\ conversionsStarted < MaxConversions
    /\ \E filePath \in NameUniverse, deleteOriginal \in BOOLEAN :
         /\ ToLowerCase(filePath.ext) # ".mp4"
         /\ ToLowerCase(filePath.ext) \in supportedFormats
         /\ ~ExistsSync(files, OutputPath(filePath))
         /\ activeConversions' =
                [k \in DOMAIN activeConversions \cup {filePath} |->
                    IF k = filePath THEN conversionsStarted + 1
                    ELSE activeConversions[k]]
         /\ transcoders' = transcoders \cup
                {[id |-> conversionsStarted + 1, filePath |-> filePath,
                  outputPath |-> OutputPath(filePath),
                  deleteOriginal |-> deleteOriginal,
                  wrote |-> FALSE, killed |-> FALSE]}
    /\ conversionsStarted' = conversionsStarted + 1
    /\ filesBefore' = files
    /\ metadataBefore' = videoMetadata
    /\ UNCHANGED <<files, videoMetadata, lastOp>>
    /\ OpsFrame

\* The transcoder has opened its input and creates its output file.
TranscoderWrites ==
    /\ \E t \in transcoders :
         /\ ~t.wrote
         /\ ~t.killed
         /\ ExistsSync(files, t.filePath)
         /\ files' = Written(files, t.outputPath)
         /\ transcoders' = (transcoders \ {t}) \cup {[t EXCEPT !.wrote = TRUE]}
    /\ UNCHANGED <<videoMetadata, activeConversions, conversionsStarted, lastOp,
                   filesBefore, metadataBefore>>
    /\ OpsFrame

\* on('end'): the output is complete; the metadata migration; the original is
\* moved to the trash when asked for, unless trashItem throws;
\* activeConversions.delete(filePath); resolve({ success: true, newPath })
ConvertEnd ==
    /\ \E t \in transcoders, trashed \in BOOLEAN :
         /\ ~t.killed
         /\ t.wrote \/ ExistsSync(files, t.filePath)
         /\ files' =
                IF t.deleteOriginal /\ trashed
                  THEN Unlink(Written(files, t.outputPath), t.filePath)
                  ELSE Written(files, t.outputPath)
         /\ videoMetadata' =
                IF MigratesOnConvert(GetVideoMetadata(videoMetadata, t.filePath))
                  THEN MigrateMetadata(videoMetadata, t.filePath, t.outputPath)
                  ELSE videoMetadata
         /\ activeConversions' = MapDelete(activeConversions, t.filePath)
         /\ transcoders' = transcoders \ {t}
         /\ lastOp' = [op |-> "convert-to-mp4", oldPath |-> {t.filePath},
                       newPath |-> {t.outputPath}, success |-> TRUE,
                       error |-> ""]
    /\ UNCHANGED <<conversionsStarted, filesBefore, metadataBefore>>
    /\ OpsFrame

\* on('error'), the transcoder having failed or having been killed:
\* activeConversions.delete(filePath); the output file is removed when there
\* is one; resolve({ success: false, error })
ConvertError ==
    /\ \E t \in transcoders :
         /\ files' = Unlink(files, t.outputPath)
         /\ activeConversions' = MapDelete(activeConversions, t.filePath)
         /\ transcoders' = transcoders \ {t}
         /\ lastOp' = [op |-> "convert-to-mp4", oldPath |-> {t.filePath},
                       newPath |-> {}, success |-> FALSE,
                       error |-> "transcoder"]
    /\ UNCHANGED <<videoMetadata, conversionsStarted, filesBefore,
                   metadataBefore>>
    /\ OpsFrame

\* cancel-conversion: the command of the path is killed and taken off the map.
CancelConversion ==
    /\ ConvertIdle
    /\ \E filePath \in DOMAIN activeConversions :
         /\ transcoders' =
                {IF t.id = activeConversions[filePath]
                   THEN [t EXCEPT !.killed = TRUE] ELSE t : t \in transcoders}
         /\ activeConversions' = MapDelete(activeConversions, filePath)
         /\ lastOp' = [op |-> "cancel-conversion", oldPath |-> {filePath},
                       newPath |-> {}, success |-> TRUE,
                       error |-> ""]
    /\ UNCHANGED <<files, videoMetadata, conversionsStarted, filesBefore,
                   metadataBefore>>
    /\ OpsFrame

\* cancel-conversion: the map has no command for the path.
CancelNothing ==
    /\ ConvertIdle
    /\ \E filePath \in NameUniverse \ DOMAIN activeConversions :
         lastOp' = [op |-> "cancel-conversion", oldPath |-> {filePath},
                    newPath |-> {}, success |-> FALSE,
                       error |-> ""]
    /\ UNCHANGED <<files, videoMetadata, activeConversions, transcoders,
                   conversionsStarted, filesBefore, metadataBefore>>
    /\ OpsFrame

OpsNext ==
    \/ RenameVideoExists
    \/ RenameVideo
    \/ RenameVideoThrows
    \/ ConvertSkipped
    \/ ConvertRefused
    \/ ConvertStart
    \/ TranscoderWrites
    \/ ConvertEnd
    \/ ConvertError
    \/ CancelConversion
    \/ CancelNothing
    \/ BatchRenameVideos
    \/ RenameToTemp
    \/ RenameToTempThrows
    \/ RenameToFinal
    \/ RenameToFinalThrows
    \/ Rollback
    \/ RollbackThrows
    \/ RollbackDone

InitOps == MainIdleScan /\ RendererIdle /\ BatchInit /\ StoreIdle

SpecOps == InitOps /\ [][OpsNext]_vars

(***************************************************************************)
(* toggle-favorite, update-tags, update-playback-time, update-product-code, *)
(* get-metadata, delete-video                                               *)
(***************************************************************************)

\* The invocations at most.
MaxRequests == 3

\* The arguments of the handlers.
TagLists == { {"a"} }
Times == { 30 }
ProductCodes == { "XYZ-2" }

\* What the handlers of the metadata leave alone.
StoreFrame ==
    UNCHANGED <<tableVars, legacyVars, destroyed, scanPc, scanCount, videoFileNames, scanIdx,
                thumbnailPath, events, scanResult, readdirFailed,
                filterStatFailed, statSkipped, extractorRuns, extractFailed,
                proberRuns, probeReply, inFlight, extractedOk, overwritten,
                rendererVars, caseInsensitive, batchVars, opsVars>>

\* saveVideoMetadata(filePath, metadata)
SaveVideoMetadata(store, filePath, metadata) ==
    [p \in DOMAIN store \cup {filePath} |->
        IF p = filePath THEN metadata ELSE store[p]]

\* toggle-favorite: metadata.isFavorite = !metadata.isFavorite; save; return it
ToggleFavorite ==
    /\ requests < MaxRequests
    /\ requests' = requests + 1
    /\ \E filePath \in StorePaths :
         LET isFavorite ==
                 ~GetVideoMetadata(videoMetadata, filePath).isFavorite
         IN  /\ videoMetadata' =
                    SaveVideoMetadata(videoMetadata, filePath,
                        [GetVideoMetadata(videoMetadata, filePath)
                           EXCEPT !.isFavorite = isFavorite])
             /\ lastSet' = [lastSet EXCEPT ![filePath].isFavorite = {isFavorite}]
             /\ lastReply' = [id |-> requests + 1, op |-> "toggle-favorite",
                              filePath |-> {filePath},
                              value |-> [NoValue EXCEPT
                                            !.isFavorite = {isFavorite}]]
    /\ UNCHANGED <<thumbs, files, deleting, thumbError, hadEntry>>
    /\ StoreFrame

\* Mutant: the tags are saved in a fresh record.
UpdateTags_FreshRecord ==
    /\ requests < MaxRequests
    /\ requests' = requests + 1
    /\ \E filePath \in StorePaths, tags \in TagLists :
         /\ videoMetadata' =
                SaveVideoMetadata(videoMetadata, filePath,
                    [DefaultMetadata EXCEPT !.tags = tags])
         /\ lastSet' = [lastSet EXCEPT ![filePath].tags = {tags}]
         /\ lastReply' = [id |-> requests + 1, op |-> "update-tags",
                          filePath |-> {filePath},
                          value |-> [NoValue EXCEPT !.tags = {tags}]]
    /\ UNCHANGED <<thumbs, files, deleting, thumbError, hadEntry>>
    /\ StoreFrame

\* update-tags: metadata.tags = tags; save; return metadata.tags
UpdateTags ==
    /\ requests < MaxRequests
    /\ requests' = requests + 1
    /\ \E filePath \in StorePaths, tags \in TagLists :
         /\ videoMetadata' =
                SaveVideoMetadata(videoMetadata, filePath,
                    [GetVideoMetadata(videoMetadata, filePath)
                       EXCEPT !.tags = tags])
         /\ lastSet' = [lastSet EXCEPT ![filePath].tags = {tags}]
         /\ lastReply' = [id |-> requests + 1, op |-> "update-tags",
                          filePath |-> {filePath},
                          value |-> [NoValue EXCEPT !.tags = {tags}]]
    /\ UNCHANGED <<thumbs, files, deleting, thumbError, hadEntry>>
    /\ StoreFrame

\* update-playback-time: metadata.lastPlayedTime = time; save
UpdatePlaybackTime ==
    /\ requests < MaxRequests
    /\ requests' = requests + 1
    /\ \E filePath \in StorePaths, time \in Times :
         /\ videoMetadata' =
                SaveVideoMetadata(videoMetadata, filePath,
                    [GetVideoMetadata(videoMetadata, filePath)
                       EXCEPT !.lastPlayedTime = {time}])
         /\ lastSet' =
                [lastSet EXCEPT ![filePath].lastPlayedTime = {{time}}]
         /\ lastReply' = [id |-> requests + 1, op |-> "update-playback-time",
                          filePath |-> {filePath}, value |-> NoValue]
    /\ UNCHANGED <<thumbs, files, deleting, thumbError, hadEntry>>
    /\ StoreFrame

\* Mutant: the product code is saved in a fresh record.
UpdateProductCode_FreshRecord ==
    /\ requests < MaxRequests
    /\ requests' = requests + 1
    /\ \E filePath \in StorePaths, productCode \in ProductCodes :
         /\ videoMetadata' =
                SaveVideoMetadata(videoMetadata, filePath,
                    [DefaultMetadata EXCEPT !.productCode = {productCode}])
         /\ lastSet' =
                [lastSet EXCEPT ![filePath].productCode = {{productCode}}]
         /\ lastReply' = [id |-> requests + 1, op |-> "update-product-code",
                          filePath |-> {filePath},
                          value |-> [NoValue EXCEPT
                                        !.productCode = {productCode}]]
    /\ UNCHANGED <<thumbs, files, deleting, thumbError, hadEntry>>
    /\ StoreFrame

\* update-product-code: metadata.productCode = productCode; save; return it
UpdateProductCode ==
    /\ requests < MaxRequests
    /\ requests' = requests + 1
    /\ \E filePath \in StorePaths, productCode \in ProductCodes :
         /\ videoMetadata' =
                SaveVideoMetadata(videoMetadata, filePath,
                    [GetVideoMetadata(videoMetadata, filePath)
                       EXCEPT !.productCode = {productCode}])
         /\ lastSet' =
                [lastSet EXCEPT ![filePath].productCode = {{productCode}}]
         /\ lastReply' = [id |-> requests + 1, op |-> "update-product-code",
                          filePath |-> {filePath},
                          value |-> [NoValue EXCEPT
                                        !.productCode = {productCode}]]
    /\ UNCHANGED <<thumbs, files, deleting, thumbError, hadEntry>>
    /\ StoreFrame

\* Mutant: the default of an absent path is saved.
GetMetadata_SavesDefault ==
    /\ requests < MaxRequests
    /\ requests' = requests + 1
    /\ \E filePath \in StorePaths :
         /\ lastReply' = [id |-> requests + 1, op |-> "get-metadata",
                          filePath |-> {filePath},
                          value |-> [NoValue EXCEPT !.metadata =
                              {GetVideoMetadata(videoMetadata, filePath)}]]
         /\ videoMetadata' =
                SaveVideoMetadata(videoMetadata, filePath,
                                  GetVideoMetadata(videoMetadata, filePath))
    /\ UNCHANGED <<thumbs, files, deleting, lastSet, thumbError, hadEntry>>
    /\ StoreFrame

\* get-metadata
GetMetadata ==
    /\ requests < MaxRequests
    /\ requests' = requests + 1
    /\ \E filePath \in StorePaths :
         lastReply' = [id |-> requests + 1, op |-> "get-metadata",
                       filePath |-> {filePath},
                       value |-> [NoValue EXCEPT !.metadata =
                           {GetVideoMetadata(videoMetadata, filePath)}]]
    /\ UNCHANGED <<videoMetadata, thumbs, files, deleting, lastSet, thumbError,
                   hadEntry>>
    /\ StoreFrame

\* The thumbnails delete-video removes: `${oldPathHash}.jpg`,
\* `${oldPathHash}_v2.jpg`, `${newPathHash}_v3.jpg`, in this order.
DeletedThumbnailPaths(filePath) ==
    << [key |-> <<"base64", filePath>>, suffix |-> ""],
       [key |-> <<"base64", filePath>>, suffix |-> "_v2"],
       CachedThumbnailPath(PathHash(filePath)) >>

\* The thumbnails a path may have in the directory.
ThumbnailsOf(filePath) ==
    { DeletedThumbnailPaths(filePath)[i] : i \in 1..3 }
        \cup {GeneratedThumbnailPath(PathHash(filePath))}

\* delete-video is invoked and awaits shell.trashItem(filePath).
DeleteVideoStart ==
    /\ requests < MaxRequests
    /\ requests' = requests + 1
    /\ \E filePath \in StorePaths :
         deleting' = deleting \cup
             {[id |-> requests + 1, filePath |-> filePath, pc |-> "trashItem"]}
    /\ UNCHANGED <<videoMetadata, thumbs, files, lastReply, lastSet, thumbError,
                   hadEntry>>
    /\ StoreFrame

\* shell.trashItem has moved the file to the trash.
TrashItemDone ==
    /\ \E d \in deleting :
         /\ d.pc = "trashItem"
         /\ ExistsSync(files, d.filePath)
         /\ files' = Unlink(files, d.filePath)
         /\ deleting' = (deleting \ {d}) \cup {[d EXCEPT !.pc = "thumbnails"]}
    /\ UNCHANGED <<videoMetadata, thumbs, requests, lastReply, lastSet,
                   thumbError, hadEntry>>
    /\ StoreFrame

\* shell.trashItem throws: return { success: false, error }
TrashItemThrows ==
    /\ \E d \in deleting :
         /\ d.pc = "trashItem"
         /\ deleting' = deleting \ {d}
         /\ lastReply' = [id |-> d.id, op |-> "delete-video",
                          filePath |-> {d.filePath},
                          value |-> [NoValue EXCEPT !.success = {FALSE}]]
    /\ UNCHANGED <<videoMetadata, thumbs, files, requests, lastSet, thumbError,
                   hadEntry>>
    /\ StoreFrame

\* The store without the entry of the path.
DeleteEntry(store, filePath) ==
    [p \in DOMAIN store \ {filePath} |-> store[p]]

\* Mutant: the entry of the path stays in the store.
DeleteVideoDone_KeepsEntry ==
    /\ \E d \in deleting, removed \in 0..3 :
         /\ d.pc = "thumbnails"
         /\ removed < 3 => DeletedThumbnailPaths(d.filePath)[removed + 1] \in thumbs
         /\ thumbs' = thumbs \
                {DeletedThumbnailPaths(d.filePath)[i] : i \in 1..removed}
         /\ thumbError' = IF removed < 3 THEN thumbError \cup {d.id}
                          ELSE thumbError
         /\ hadEntry' = IF d.filePath \in DOMAIN videoMetadata
                          THEN hadEntry \cup {d.id} ELSE hadEntry
         /\ lastSet' = [lastSet EXCEPT ![d.filePath] = NothingWritten]
         /\ deleting' = deleting \ {d}
         /\ lastReply' = [id |-> d.id, op |-> "delete-video",
                          filePath |-> {d.filePath},
                          value |-> [NoValue EXCEPT !.success = {TRUE}]]
    /\ UNCHANGED <<videoMetadata, files, requests>>
    /\ StoreFrame

\* The thumbnails are removed one after the other, up to the one whose unlink
\* throws, if any; the entry of the path is deleted from the store;
\* return { success: true }
DeleteVideoDone ==
    /\ \E d \in deleting, removed \in 0..3 :
         /\ d.pc = "thumbnails"
         /\ removed < 3 => DeletedThumbnailPaths(d.filePath)[removed + 1] \in thumbs
         /\ thumbs' = thumbs \
                {DeletedThumbnailPaths(d.filePath)[i] : i \in 1..removed}
         /\ thumbError' = IF removed < 3 THEN thumbError \cup {d.id}
                          ELSE thumbError
         /\ hadEntry' = IF d.filePath \in DOMAIN videoMetadata
                          THEN hadEntry \cup {d.id} ELSE hadEntry
         /\ videoMetadata' = DeleteEntry(videoMetadata, d.filePath)
         /\ lastSet' = [lastSet EXCEPT ![d.filePath] = NothingWritten]
         /\ deleting' = deleting \ {d}
         /\ lastReply' = [id |-> d.id, op |-> "delete-video",
                          filePath |-> {d.filePath},
                          value |-> [NoValue EXCEPT !.success = {TRUE}]]
    /\ UNCHANGED <<files, requests>>
    /\ StoreFrame

StoreNext ==
    \/ ToggleFavorite
    \/ UpdateTags
    \/ UpdatePlaybackTime
    \/ UpdateProductCode
    \/ GetMetadata
    \/ DeleteVideoStart
    \/ TrashItemDone
    \/ TrashItemThrows
    \/ DeleteVideoDone

\* The thumbnails directory the handlers start from.
StoreThumbs ==
    { {}, ThumbnailsOf([dir |-> FolderPath, stem |-> <<"x">>, ext |-> ".mp4"]) }

\* The directories the handlers start from.
StoreDirectories == {[p \in S |-> p] : S \in SUBSET StorePaths}

InitStore ==
    /\ TablesEmpty
    /\ thumbs \in StoreThumbs
    /\ ScanIdle
    /\ RendererIdle
    /\ caseInsensitive = FALSE
    /\ files \in StoreDirectories
    /\ BatchInit
    /\ StoreIdle

SpecStore == InitStore /\ [][StoreNext]_vars

(***************************************************************************)
(* Properties of batch-rename-videos                                       *)
(***************************************************************************)
\* The target name allocated to the i-th path of the batch, from the
\* directory as it was when the handler was invoked.
AllocatedTarget(i) ==
    NewPath(videoPaths[i],
            AvailableNumbers(TakenNumbers(filesBefore, videoPaths, ~readdirThrew),
                             Len(videoPaths), 1)[i])

\* The target of the i-th path is another name than its own and the name of
\* a file that is not in the batch.
CollidesOutsideBatch(i) ==
    /\ LowerCasePath(AllocatedTarget(i)) # LowerCasePath(videoPaths[i])
    /\ ExistsSync(filesBefore, AllocatedTarget(i))
    /\ ~IsInBatch(videoPaths, AllocatedTarget(i))

\* The file that was at the i-th path when the handler was invoked is there
\* still.
AtOriginalPath(i) ==
    \A f \in Occupants(filesBefore, videoPaths[i]) :
        f \in DOMAIN files /\ files[f] = filesBefore[f]

\* The file that was at the i-th path when the handler was invoked is at
\* path p now.
MovedTo(i, p) ==
    \A f \in Occupants(filesBefore, videoPaths[i]) :
        p \in DOMAIN files /\ files[p] = filesBefore[f]

\* C5: once batch-rename-videos is invoked with an empty batch, or with a
\* batch one of whose targets is a file outside the batch, it has returned
\* success=false with errors and no results, and neither the directory nor
\* the metadata store has changed.
C5_ValidationAllOrNothing ==
    (/\ batchPc # "idle"
     /\ \/ videoPaths = << >>
        \/ \E i \in 1..Len(videoPaths) : CollidesOutsideBatch(i))
    => /\ batchPc = "done"
       /\ batchReturn.success = FALSE
       /\ Len(batchReturn.errors) > 0
       /\ batchReturn.results = << >>
       /\ files = filesBefore
       /\ videoMetadata = metadataBefore

\* C5 happens: a batch whose first path is skipped and whose second path
\* collides with a file outside the batch has been refused.
C5_Witness ==
    /\ batchPc = "done"
    /\ Len(videoPaths) = 2
    /\ CollidesOutsideBatch(2)
    /\ Len(results) = 1
    /\ batchReturn.success = FALSE

\* C6: when batch-rename-videos returns after a rename threw and no rollback
\* rename threw, every input file is back at its original path and the
\* result is success=false with no results.
C6_RollbackRestoresAll ==
    (batchPc = "done" /\ renameFailed # "none" /\ ~rollbackFailed)
    => /\ \A i \in 1..Len(videoPaths) : AtOriginalPath(i)
       /\ batchReturn.success = FALSE
       /\ batchReturn.results = << >>

\* C7: when batch-rename-videos returns success, the result has one entry
\* for every input, skipped counts the inputs whose name is already their
\* allocated target, the files of those inputs are where they were, and the
\* file of every other input is at its allocated target.
C7_SuccessfulBatch ==
    (batchPc = "done" /\ batchReturn.success = TRUE)
    => LET inputs == 1..Len(videoPaths)
           same == {i \in inputs : AllocatedTarget(i) = videoPaths[i]}
       IN  /\ Len(batchReturn.results) = Len(videoPaths)
           /\ \A i \in inputs :
                 Cardinality({k \in 1..Len(batchReturn.results) :
                     batchReturn.results[k].oldPath = videoPaths[i]}) = 1
           /\ batchReturn.skipped = Cardinality(same)
           /\ \A i \in same : AtOriginalPath(i)
           /\ \A i \in inputs \ same : MovedTo(i, AllocatedTarget(i))

\* C7 happens: a batch of three existing files, one already at its target and
\* two renamed, has succeeded.
C7_Witness ==
    /\ batchPc = "done"
    /\ batchReturn.success = TRUE
    /\ Len(videoPaths) = 3
    /\ \A i \in 1..3 : ExistsSync(filesBefore, videoPaths[i])
    /\ batchReturn.skipped = 1
    /\ Len(newPaths) = 2

\* C20: when batch-rename-videos returns after a rollback rename threw, its
\* result is another one than the result it returns when every rollback
\* rename succeeded.
C20_RollbackFailureSurfaced ==
    (batchPc = "done" /\ renameFailed # "none" /\ rollbackFailed)
    => batchReturn # RollbackReturn

(***************************************************************************)
(* Properties of the metadata migration                                    *)
(***************************************************************************)
\* A single-file rename has succeeded, from oldPath to another path newPath.
Renamed(oldPath, newPath) ==
    /\ lastOp.op = "rename-video"
    /\ lastOp.success
    /\ lastOp.oldPath = {oldPath}
    /\ lastOp.newPath = {newPath}
    /\ newPath # oldPath

\* C8: after a successful rename-video of a path whose metadata had
\* isFavorite = true to another path, the metadata read at the new path is a
\* favourite with the same tags and the metadata read at the old path is the
\* default.
C8_RenameKeepsFavorite ==
    \A oldPath \in DOMAIN metadataBefore, newPath \in DOMAIN files :
        (Renamed(oldPath, newPath) /\ metadataBefore[oldPath].isFavorite)
        => /\ GetVideoMetadata(videoMetadata, newPath).isFavorite
           /\ GetVideoMetadata(videoMetadata, newPath).tags =
                  metadataBefore[oldPath].tags
           /\ GetVideoMetadata(videoMetadata, oldPath) = DefaultMetadata

\* C8 happens: a favourite with a tag has been renamed to another name.
C8_Witness ==
    \E oldPath \in DOMAIN metadataBefore, newPath \in DOMAIN files :
        /\ Renamed(oldPath, newPath)
        /\ metadataBefore[oldPath].isFavorite
        /\ metadataBefore[oldPath].tags # {}

\* The metadata of oldPath, as it was before the operation, has been migrated
\* to newPath: stored there when it was not the default, with the old key
\* gone, and no entry made for newPath when it was the default.
Migrated(oldPath, newPath) ==
    IF GetVideoMetadata(metadataBefore, oldPath) # DefaultMetadata
      THEN /\ newPath \in DOMAIN videoMetadata
           /\ videoMetadata[newPath] = GetVideoMetadata(metadataBefore, oldPath)
           /\ oldPath \notin DOMAIN videoMetadata
      ELSE newPath \in DOMAIN videoMetadata => newPath \in DOMAIN metadataBefore

\* C9: after a successful rename-video or convert-to-mp4 to another path, and
\* after a successful batch-rename-videos for every renamed input, the
\* metadata of the old path has been migrated to the new path.
C9_MigrationComplete ==
    /\ \A oldPath \in lastOp.oldPath, newPath \in lastOp.newPath :
          (lastOp.success /\ newPath # oldPath) => Migrated(oldPath, newPath)
    /\ (batchPc = "done" /\ batchReturn.success = TRUE)
       => \A k \in 1..Len(newPaths) :
              Migrated(newPaths[k].oldPath, newPaths[k].newPath)

\* ---------------------------------------------------------------------------
\* Properties of the allocation of the numbers and of the two passes.

\* The files of the directory that the batch names.
FilesOfBatch ==
    UNION {Occupants(filesBefore, videoPaths[i]) : i \in 1..Len(videoPaths)}

\* The numbers carried by the numbered files that are not of the batch.
OutOfBatchNumbers ==
    {ParseInt(f.stem) :
        f \in {g \in DOMAIN filesBefore \ FilesOfBatch : NumberPattern(g)}}

\* The numbers are the n smallest positive integers outside taken, in
\* increasing order.
SmallestFree(numbers, n, taken) ==
    /\ Len(numbers) = n
    /\ \A i \in 1..n : numbers[i] >= 1 /\ numbers[i] \notin taken
    /\ \A i \in 1..(n - 1) : numbers[i] < numbers[i + 1]
    /\ \A i \in 1..n : \A k \in 1..numbers[i] :
          k \notin taken => \E j \in 1..i : numbers[j] = k

\* C23: the numbers allocated to the files of a batch are, in input order,
\* the smallest positive integers that no numbered file outside the batch
\* carries: they increase strictly, none is carried by a file outside the
\* batch, and a number carried by files of the batch only is free.
C23_SmallestFreeNumbers ==
    (batchPc # "idle" /\ Len(videoPaths) > 0)
    => SmallestFree(availableNums, Len(videoPaths), OutOfBatchNumbers)

\* The path the rename of this step goes to: the temporary name in the first
\* pass, the final target in the second.
RenameTarget ==
    IF batchPc = "pass1" THEN TempPath(newPaths[batchIdx].oldPath)
    ELSE newPaths[batchIdx].newPath

\* A rename of one of the two passes succeeds in this step.
ForwardRename ==
    /\ batchPc \in {"pass1", "pass2"}
    /\ renameFailed' = "none"
    /\ files' # files

\* No file of the directory carries a temporary name.
NoTempName ==
    \A f \in DOMAIN files : f.stem[Len(f.stem)] # "_temp_now"

\* C24: in a batch whose validation passed and in which no rename throws,
\* every rename of the two passes goes to a path that no file occupies at
\* that moment, and when the batch returns every input that was not skipped
\* is at its final target and no temporary name is left.
C24_RenamesGoToFreePaths ==
    [][/\ ForwardRename => ~ExistsSync(files, RenameTarget)
       /\ (ForwardRename /\ batchPc' = "done")
          => /\ \A k \in 1..Len(newPaths) :
                   \A f \in Occupants(filesBefore, newPaths[k].oldPath) :
                       /\ newPaths[k].newPath \in DOMAIN files'
                       /\ files'[newPaths[k].newPath] = filesBefore[f]
             /\ NoTempName']_vars

\* The files a directory holds, whatever their names.
FilesIn(fs) == {fs[f] : f \in DOMAIN fs}

\* C25: batch-rename-videos destroys no file: at every moment of an
\* invocation, rollback included, the directory holds the files it held when
\* the handler was invoked, and as many of them.
C25_NoFileDestroyed ==
    batchPc # "idle"
    => /\ FilesIn(files) = FilesIn(filesBefore)
       /\ Cardinality(DOMAIN files) = Cardinality(DOMAIN filesBefore)

\* ---------------------------------------------------------------------------
\* Properties of rename-video.

\* C26: after a successful rename-video, also one to the name the file has,
\* the metadata read at the returned newPath is the metadata that was read at
\* oldPath before the call.
C26_RenameKeepsMetadata ==
    (lastOp.op = "rename-video" /\ lastOp.success)
    => \A o \in lastOp.oldPath, n \in lastOp.newPath :
          GetVideoMetadata(videoMetadata, n) = GetVideoMetadata(metadataBefore, o)

\* C27: a rename-video that found a file at the new path, another path than
\* the old one, has returned success=false with newPath null and has changed
\* neither the directory nor the metadata store; one whose rename threw has
\* returned success=false with newPath null and has left the metadata store
\* as it was.
C27_RefusedRenameChangesNothing ==
    (lastOp.op = "rename-video" /\ ~lastOp.success)
    => /\ lastOp.newPath = {}
       /\ videoMetadata = metadataBefore
       /\ lastOp.error = "exists" => files = filesBefore

\* C27 happens: the rename of a file that has metadata was refused because a
\* file is at the new path.
C27_Witness ==
    /\ lastOp.op = "rename-video"
    /\ ~lastOp.success
    /\ lastOp.error = "exists"
    /\ \E o \in lastOp.oldPath :
          /\ ExistsSync(files, o)
          /\ o \in DOMAIN videoMetadata
          /\ videoMetadata[o].isFavorite

\* ---------------------------------------------------------------------------
\* Properties of the conversion.

\* C15: at most one conversion is in flight for a source path: a second
\* request for a path whose conversion runs starts no second transcoder.
C15_OneConversionPerPath ==
    \A t, u \in transcoders : t.filePath = u.filePath => t = u

\* The transcoder t runs no more after this step, and its request resolves
\* with success false.
EndsInFailure(t) ==
    /\ \A u \in transcoders' : u.id # t.id
    /\ lastOp'.op = "convert-to-mp4"
    /\ ~lastOp'.success

\* C16: when a conversion ends in a transcoder failure or after a cancel, the
\* request resolves with success false for its path, no file is at the output
\* path, and the original file and its metadata are as
\* they were when the conversion was asked for.
C16_FailureLeavesNoTrace ==
    [][\A t \in transcoders :
          EndsInFailure(t)
          => /\ lastOp'.oldPath = {t.filePath}
             /\ ~ExistsSync(files', t.outputPath)
             /\ \A f \in Occupants(filesBefore, t.filePath) :
                   f \in DOMAIN files' /\ files'[f] = filesBefore[f]
             /\ GetVideoMetadata(videoMetadata', t.filePath)
                    = GetVideoMetadata(metadataBefore, t.filePath)]_vars

\* The transcoder processes started for a path that have not ended, failed or
\* been cancelled.
RunningFor(running, filePath) ==
    {t \in running : t.filePath = filePath /\ ~t.killed}

\* C33: the registry mirrors the running processes: activeConversions has an
\* entry for a path exactly while a transcoder started for that path has not
\* ended, failed or been cancelled, and the entry is that process;
\* cancel-conversion answers success=true exactly when there is such a
\* process, which it then terminates; with no conversion left the registry
\* is empty.
C33_RegistryMirrorsProcesses ==
    /\ [](/\ \A filePath \in NameUniverse :
               /\ filePath \in DOMAIN activeConversions
                     <=> RunningFor(transcoders, filePath) # {}
               /\ filePath \in DOMAIN activeConversions
                     => \E t \in RunningFor(transcoders, filePath) :
                           t.id = activeConversions[filePath]
          /\ transcoders = {} => activeConversions = << >>)
    /\ [][(lastOp' # lastOp /\ lastOp'.op = "cancel-conversion")
          => \A filePath \in lastOp'.oldPath :
                /\ lastOp'.success <=> RunningFor(transcoders, filePath) # {}
                /\ lastOp'.success => RunningFor(transcoders', filePath) = {}]_vars

\* ---------------------------------------------------------------------------
\* Properties of the handlers of the metadata and of delete-video.

MetadataFields == {"isFavorite", "tags", "lastPlayedTime", "productCode"}

\* C17: no update is lost between toggle-favorite, update-tags,
\* update-playback-time and update-product-code: whatever the order the
\* handlers ran in, every field of a path holds the value the last handler
\* that set it gave it.
C17_NoLostUpdate ==
    \A p \in StorePaths, f \in MetadataFields :
        lastSet[p][f] # {}
        => lastSet[p][f] = {GetVideoMetadata(videoMetadata, p)[f]}

\* Two handlers have set two fields of one path, away from the defaults.
C17_Witness ==
    \E p \in StorePaths :
        /\ lastSet[p].isFavorite = {TRUE}
        /\ lastSet[p].tags = {{"a"}}
        /\ lastReply.op = "update-tags"

\* C18: get-metadata of a path the store has no entry for resolves to the
\* default metadata and adds no entry to the store.
C18_DefaultForAbsentPath ==
    [][(lastReply'.id # lastReply.id /\ lastReply'.op = "get-metadata"
        /\ lastReply'.filePath \cap DOMAIN videoMetadata = {})
       => /\ lastReply'.value.metadata = {DefaultMetadata}
          /\ videoMetadata' = videoMetadata]_vars

\* get-metadata has resolved for a path without an entry, the store holding
\* an entry for the other path.
C18_Witness ==
    /\ lastReply.op = "get-metadata"
    /\ lastReply.filePath \cap DOMAIN videoMetadata = {}
    /\ lastReply.value.metadata = {DefaultMetadata}
    /\ videoMetadata # << >>

\* C19: when delete-video resolves with success, the metadata of the path is
\* the default, also when the removal of the thumbnails threw; when it
\* resolves with a failure, the store and the thumbnails are as they were
\* before its last step.
C19_DeleteRemovesMetadata ==
    [][(lastReply'.id # lastReply.id /\ lastReply'.op = "delete-video")
       => IF lastReply'.value.success = {TRUE}
            THEN \A p \in lastReply'.filePath :
                    GetVideoMetadata(videoMetadata', p) = DefaultMetadata
            ELSE videoMetadata' = videoMetadata /\ thumbs' = thumbs]_vars

\* delete-video has resolved with success for a path that had metadata, the
\* removal of its thumbnails having thrown.
C19_Witness ==
    /\ lastReply.op = "delete-video"
    /\ lastReply.value.success = {TRUE}
    /\ lastReply.id \in thumbError
    /\ lastReply.id \in hadEntry

\* The field each handler that writes the metadata writes.
OwnField(op) ==
    CASE op = "toggle-favorite" -> "isFavorite"
      [] op = "update-tags" -> "tags"
      [] op = "update-playback-time" -> "lastPlayedTime"
      [] op = "update-product-code" -> "productCode"

\* C32: a write of the metadata changes its own field of its own path and
\* nothing else: toggle-favorite negates isFavorite (so that two calls in a
\* row restore it), update-tags, update-playback-time and update-product-code
\* put their argument in their field, the other three fields of the path keep
\* their values and the entries of the other paths stay as they were.
C32_WriteChangesOwnFieldOnly ==
    [][(/\ lastReply'.id # lastReply.id
        /\ lastReply'.op \in {"toggle-favorite", "update-tags",
                              "update-playback-time", "update-product-code"})
       => \A p \in lastReply'.filePath :
             LET own    == OwnField(lastReply'.op)
                 before == GetVideoMetadata(videoMetadata, p)
                 after  == GetVideoMetadata(videoMetadata', p)
             IN  /\ \A g \in MetadataFields \ {own} : after[g] = before[g]
                 /\ IF own = "isFavorite"
                      THEN after.isFavorite = ~before.isFavorite
                      ELSE {after[own]} = lastSet'[p][own]
                 /\ \A q \in (DOMAIN videoMetadata \cup DOMAIN videoMetadata') \ {p} :
                       /\ q \in DOMAIN videoMetadata
                       /\ q \in DOMAIN videoMetadata'
                       /\ videoMetadata'[q] = videoMetadata[q]]_vars

\* C32 happens: toggle-favorite has cleared the favourite flag of a path
\* whose tags a handler had set, and the tags are there.
C32_Witness ==
    \E p \in StorePaths :
        /\ lastReply.op = "toggle-favorite"
        /\ lastReply.filePath = {p}
        /\ lastSet[p].isFavorite = {FALSE}
        /\ lastSet[p].tags = {{"a"}}
        /\ GetVideoMetadata(videoMetadata, p).tags = {"a"}

====
